---- MODULE Spec2Model ----
(***************************************************************************)
(* Crawl orchestration engine of CLI-Crawler (crawler.py): the frontier,   *)
(* the visited set, the robots gate, the page fetch/extract pipeline and   *)
(* the collaborator passes that feed the frontier.                         *)
(*                                                                         *)
(* A URL string is modelled by its urlparse() components: scheme, netloc,  *)
(* path (the sequence of its segments), query (the sequence of its         *)
(* parameters) and fragment.  An href found in a page is the same record   *)
(* with an empty scheme when it is relative, plus the flag `rooted`        *)
(* (it starts with "/").                                                   *)
(*                                                                         *)
(* Six specifications, and FairSpec, which is Spec with fairness: Spec is  *)
(* crawl() on a crawler that is set up, MainSpec is main() from setup to   *)
(* exit (report files, resources, interrupt), PureSpec applies the         *)
(* functions of utils.py, link extraction and the CrawlerConfig file       *)
(* operations of config.py, RobotsSpec applies the robots.txt parsers and  *)
(* gates, ProbeSpec is one call of guess_endpoints or scan_hidden_files    *)
(* with its concurrent probe tasks, and ReportSpec applies the grouping    *)
(* of endpoints that the report carries.                                   *)
(***************************************************************************)
EXTENDS Integers, Sequences, FiniteSets, TLC

VARIABLES
    config,           \* CrawlConfig of the run
    pc,               \* position of crawl(): "start", the passes, "loop", "done"
    visited_urls,     \* WebCrawler.visited_urls
    url_queue,        \* WebCrawler.url_queue, a deque of <<url, depth>>
    results,          \* WebCrawler.results
    robots_parser,    \* RobotsTxtParser fields
    robots_data,      \* value returned by parse_robots_txt, kept for the report
    subdomains,       \* WebCrawler.subdomains
    guessed_endpoints,\* WebCrawler.guessed_endpoints
    hidden_files,     \* WebCrawler.hidden_files
    fetched,          \* history: every page fetch issued, in order, with what was served
    dequeued,         \* history: the tasks popped from url_queue
    can_fetch_calls,  \* history: number of RobotsTxtParser.can_fetch invocations
    last,             \* history: what the last loop iteration did, or how the run left crawl()
    forms,            \* WebCrawler.forms
    api_endpoints,    \* WebCrawler.api_endpoints
    js_files,         \* WebCrawler.js_files
    cookies,          \* WebCrawler.cookies
    headers,          \* WebCrawler.headers
    resources,        \* WebCrawler.session, .playwright and .browser
    saved,            \* what main() wrote to the report files
    pure,             \* argument and value of the last utility-function call
    probe,            \* one call of guess_endpoints or scan_hidden_files
    slept             \* history: asyncio.sleep(config.delay) completed since the last page fetch

vars == <<config, pc, visited_urls, url_queue, results, robots_parser, robots_data,
          subdomains, guessed_endpoints, hidden_files,
          fetched, dequeued, can_fetch_calls, last,
          forms, api_endpoints, js_files, cookies, headers,
          resources, saved, pure, slept, probe>>

(* the collections _extract_global_data feeds *)
aggregates == <<forms, api_endpoints, js_files, cookies, headers>>

(* state outside the WebCrawler.crawl() coroutine *)
environment == <<resources, saved, pure>>

----------------------------------------------------------------------------
(* Bounds of the model *)

MaxDepthBound == 1      \* max_depth ranges over 0..MaxDepthBound and the default
MaxPagesBound == 2      \* max_pages ranges over 0..MaxPagesBound and the default

(* Program constants *)

DefaultMaxDepth == 5
DefaultMaxPages == 1000

----------------------------------------------------------------------------
(* URLs *)

BaseHost == "test.local"

Url(s, n, p, q, f) ==
    [scheme |-> s, netloc |-> n, path |-> p, query |-> q, fragment |-> f]

Href(s, n, p, q, f, r) ==
    [scheme |-> s, netloc |-> n, path |-> p, query |-> q, fragment |-> f, rooted |-> r]

RootUrl    == Url("http", BaseHost, <<>>, <<>>, "")
QuerySeed  == Url("http", BaseHost, <<"a.html">>, <<"b=2", "a=1">>, "")
PrivateSeed == Url("http", BaseHost, <<"private", "page.html">>, <<>>, "")

(* hrefs that pages of the modelled sites contain *)
HrefA       == Href("", "", <<"a">>, <<>>, "", TRUE)            \* /a
HrefB       == Href("", "", <<"b">>, <<>>, "", TRUE)            \* /b
HrefAFrag   == Href("", "", <<"a.html">>, <<>>, "top", TRUE)    \* /a.html#top
HrefQ12     == Href("", "", <<"a.html">>, <<"a=1", "b=2">>, "", TRUE)  \* /a.html?a=1&b=2
HrefQ21     == Href("", "", <<"a.html">>, <<"b=2", "a=1">>, "", TRUE)  \* /a.html?b=2&a=1
HrefPrivate == Href("", "", <<"private", "page.html">>, <<>>, "", TRUE) \* /private/page.html
HrefRelB    == Href("", "", <<"b.html">>, <<>>, "", FALSE)      \* b.html
HrefBHtml   == Href("", "", <<"b.html">>, <<>>, "", TRUE)       \* /b.html
HrefEvil    == Href("http", "evil.com", <<"x.html">>, <<>>, "", TRUE)  \* http://evil.com/x.html
HrefPdf     == Href("", "", <<"doc.pdf">>, <<>>, "", TRUE)      \* /doc.pdf

(* str.endswith on the last path segment: the extension of each segment *)
ExtOf(seg) ==
    CASE seg \in {"a.html", "b.html", "x.html", "page.html", "admin.html"} -> ".html"
      [] seg = "doc.pdf" -> ".pdf"
      [] seg = "env.php" -> ".php"
      [] OTHER -> ""

PathExt(p) == IF p = <<>> THEN "" ELSE ExtOf(p[Len(p)])

Front(s) == IF s = <<>> THEN <<>> ELSE SubSeq(s, 1, Len(s) - 1)

(* urllib.parse.urljoin(base, href) *)
UrlJoin(base, h) ==
    IF h.scheme # ""
    THEN Url(h.scheme, h.netloc, h.path, h.query, h.fragment)
    ELSE IF h.rooted
    THEN Url(base.scheme, base.netloc, h.path, h.query, h.fragment)
    ELSE IF h.path = <<>>
    THEN Url(base.scheme, base.netloc, base.path,
             IF h.query = <<>> THEN base.query ELSE h.query, h.fragment)
    ELSE Url(base.scheme, base.netloc, Front(base.path) \o h.path, h.query, h.fragment)

(* netloc.endswith(base_netloc.split('.', 1)[1]) for the hosts of the model *)
HostSuffix(n) ==
    CASE n = "test.local" -> "local"
      [] n = "sub.test.local" -> "test.local"
      [] n = "test.local:8080" -> "local:8080"
      [] n = "evil.com" -> "com"
      [] OTHER -> ""

HostEndsWith(n, suffix) ==
    \/ n = suffix
    \/ suffix = "local" /\ n \in {"test.local", "sub.test.local"}
    \/ suffix = "test.local" /\ n \in {"test.local", "sub.test.local"}
    \/ suffix = "com" /\ n = "evil.com"
    \/ suffix = "local:8080" /\ n = "test.local:8080"

----------------------------------------------------------------------------
(* Configuration *)

DefaultIgnoredExtensions == {".pdf", ".zip", ".exe", ".dmg", ".mp4", ".mp3", ".avi"}
DefaultFocusedExtensions == {".html", ".php", ".asp", ".aspx", ".jsp", ".js", ".css"}



(* CrawlConfig() with only base_url given, after WebCrawler.__init__ has
   filled in the extension sets *)
DefaultConfig ==
    [base_url |-> RootUrl,
     max_depth |-> DefaultMaxDepth,
     max_pages |-> DefaultMaxPages,
     respect_robots |-> TRUE,
     override_robots |-> FALSE,
     include_subdomains |-> FALSE,
     use_playwright |-> TRUE,
     ignored_extensions |-> DefaultIgnoredExtensions,
     focused_extensions |-> DefaultFocusedExtensions,
     enable_subdomain_enumeration |-> FALSE,
     enable_endpoint_guessing |-> FALSE,
     enable_hidden_file_scanning |-> FALSE]

(* a crawl without robots policy whose page budget outlasts the seed, the
   pages it links to and a link it carries twice *)
RevisitConfig ==
    [DefaultConfig EXCEPT !.max_pages = MaxPagesBound + 2,
                          !.respect_robots = FALSE,
                          !.use_playwright = FALSE]

(* the collaborator passes are enabled one at a time or not at all *)
FeaturesBounded(c) ==
    Cardinality({f \in {"s", "e", "h"} :
        \/ f = "s" /\ c.enable_subdomain_enumeration
        \/ f = "e" /\ c.enable_endpoint_guessing
        \/ f = "h" /\ c.enable_hidden_file_scanning}) <= 1

Configs ==
    { c \in [base_url : {RootUrl, QuerySeed},
             max_depth : 0..MaxDepthBound,
             max_pages : 0..MaxPagesBound,
             respect_robots : BOOLEAN,
             override_robots : BOOLEAN,
             include_subdomains : {FALSE},
             use_playwright : BOOLEAN,
             ignored_extensions : {DefaultIgnoredExtensions},
             focused_extensions : {DefaultFocusedExtensions, {}},
             enable_subdomain_enumeration : BOOLEAN,
             enable_endpoint_guessing : BOOLEAN,
             enable_hidden_file_scanning : BOOLEAN] : FeaturesBounded(c) }
    \cup {DefaultConfig, [DefaultConfig EXCEPT !.base_url = PrivateSeed],
          RevisitConfig}

----------------------------------------------------------------------------
(* Admission filter and normalisation (WebCrawler methods) *)

(* WebCrawler.is_valid_url; base_netloc.split('.', 1)[1] raises IndexError
   for a host without a dot, which the except turns into False *)
IsValidUrl(cfg, url) ==
    LET base == cfg.base_url
        hostOk == IF ~cfg.include_subdomains
                  THEN url.netloc = base.netloc
                  ELSE /\ HostSuffix(base.netloc) # ""
                       /\ HostEndsWith(url.netloc, HostSuffix(base.netloc))
        ext == PathExt(url.path)
    IN  /\ hostOk
        /\ ~(cfg.ignored_extensions # {} /\ ext \in cfg.ignored_extensions)
        /\ ~(cfg.focused_extensions # {} /\ ext \notin cfg.focused_extensions)

(* WebCrawler.normalize_url: drops the fragment, keeps the query as written *)
NormalizeUrl(url) == [url EXCEPT !.fragment = ""]

RECURSIVE ExtractLinksFrom(_, _, _)
ExtractLinksFrom(cfg, base, hrefs) ==
    IF hrefs = <<>> THEN <<>>
    ELSE LET full == UrlJoin(base, Head(hrefs))
             rest == ExtractLinksFrom(cfg, base, Tail(hrefs))
         IN IF IsValidUrl(cfg, full) THEN <<NormalizeUrl(full)>> \o rest ELSE rest

(* WebCrawler._extract_links: resolves against config.base_url *)
ExtractLinks(cfg, hrefs) == ExtractLinksFrom(cfg, cfg.base_url, hrefs)

(* WebCrawler._extract_links_playwright: resolves against page.url *)
ExtractLinksPlaywright(cfg, page_url, hrefs) == ExtractLinksFrom(cfg, page_url, hrefs)

----------------------------------------------------------------------------
(* Robots gate *)

NoError == "None"

UserAgentLine(a)  == [directive |-> "User-agent", value |-> a, numeric |-> FALSE]
DisallowLine(p)   == [directive |-> "Disallow", value |-> p, numeric |-> FALSE]
AllowLine(p)      == [directive |-> "Allow", value |-> p, numeric |-> FALSE]
CrawlDelayLine(n) == [directive |-> "Crawl-delay", value |-> n, numeric |-> TRUE]
BadCrawlDelayLine == [directive |-> "Crawl-delay", value |-> 0, numeric |-> FALSE]

(* the robots.txt body the server sends *)
RobotsFile ==
    <<UserAgentLine("otherbot"), DisallowLine(<<"a.html">>),
      UserAgentLine("*"), DisallowLine(<<"private">>), AllowLine(<<>>),
      BadCrawlDelayLine, CrawlDelayLine(2)>>

(* what session.get(robots_url) and parser.read() may do *)
RobotsResponses ==
    { [raised |-> TRUE, status |-> 0, content |-> <<>>, read_raised |-> FALSE],
      [raised |-> FALSE, status |-> 404, content |-> <<>>, read_raised |-> FALSE],
      [raised |-> FALSE, status |-> 200, content |-> RobotsFile, read_raised |-> TRUE],
      [raised |-> FALSE, status |-> 200, content |-> RobotsFile, read_raised |-> FALSE] }

(* RobotsTxtParser.__init__ *)
NewRobotsParser == [disallowed_paths |-> {}, allowed_paths |-> {}, crawl_delay |-> 0]

(* variant: a Crawl-delay line adds to the delay recorded so far *)
ParseLine_DelayAdds(rp, line) ==
    CASE line.directive = "Disallow" ->
           [rp EXCEPT !.disallowed_paths = @ \cup {line.value}]
      [] line.directive = "Allow" ->
           [rp EXCEPT !.allowed_paths = @ \cup {line.value}]
      [] line.directive = "Crawl-delay" ->
           IF line.numeric THEN [rp EXCEPT !.crawl_delay = @ + line.value] ELSE rp
      [] OTHER -> rp

(* one iteration of the line loop of RobotsTxtParser.parse_robots_txt *)
ParseLine(rp, line) ==
    CASE line.directive = "Disallow" ->
           [rp EXCEPT !.disallowed_paths = @ \cup {line.value}]
      [] line.directive = "Allow" ->
           [rp EXCEPT !.allowed_paths = @ \cup {line.value}]
      [] line.directive = "Crawl-delay" ->
           IF line.numeric THEN [rp EXCEPT !.crawl_delay = line.value] ELSE rp
      [] OTHER -> rp

RECURSIVE ParseLines(_, _)
ParseLines(rp, lines) ==
    IF lines = <<>> THEN rp ELSE ParseLines(ParseLine(rp, Head(lines)), Tail(lines))

RobotsError(msg) ==
    [error |-> msg, disallowed_paths |-> {}, allowed_paths |-> {}, crawl_delay |-> 0]

(* RobotsTxtParser.parse_robots_txt: the new parser fields and the returned dict *)
ParseRobotsTxt(rp, resp) ==
    IF resp.raised THEN [parser |-> rp, data |-> RobotsError("exception")]
    ELSE IF resp.status # 200 THEN [parser |-> rp, data |-> RobotsError("Not found")]
    ELSE IF resp.read_raised THEN [parser |-> rp, data |-> RobotsError("exception")]
    ELSE LET rp2 == ParseLines(rp, resp.content)
         IN [parser |-> rp2,
             data |-> [error |-> NoError,
                       disallowed_paths |-> rp2.disallowed_paths,
                       allowed_paths |-> rp2.allowed_paths,
                       crawl_delay |-> rp2.crawl_delay]]

(* the requests parse_robots_txt issues for robots_url, by client:
   session.get, and on a 200 answer the urlopen of RobotFileParser.read() *)
RobotsRequests(resp) ==
    IF resp.raised \/ resp.status # 200 THEN <<"aiohttp">> ELSE <<"aiohttp", "urllib">>

(* variant: a gate that answers "allowed" for every url *)
CanFetch_AlwaysAllowed(rp, url) == [raised |-> FALSE, value |-> TRUE]

(* RobotsTxtParser.can_fetch: self.parser is always set, and evaluating
   self.user_agent raises AttributeError (RobotsTxtParser has no such
   attribute), for every url *)
CanFetch(rp, url) == [raised |-> TRUE, value |-> FALSE]

(* variant: the override flag is not looked at *)
RobotsPolicyActive_IgnoresOverride(cfg) == cfg.respect_robots

(* the condition of crawl_page under which the gate is consulted *)
RobotsPolicyActive(cfg) == cfg.respect_robots /\ ~cfg.override_robots

----------------------------------------------------------------------------
(* Page fetch and crawl_page *)

EmptyDict == [k \in {} |-> ""]

(* variant: a key already present keeps its value *)
DictUpdate_KeepFirst(d, other) == d @@ other

(* dict.update *)
DictUpdate(d, other) == other @@ d

(* a CrawlResult without page content, as the except branch of crawl_page
   builds it *)
CrawlResult(url, status, links, depth, error) ==
    [url |-> url, status_code |-> status, links |-> links, depth |-> depth,
     error |-> error, forms |-> <<>>, api_endpoints |-> <<>>, js_files |-> <<>>,
     cookies |-> EmptyDict, headers |-> EmptyDict]

(* a <form> element: its action and method attributes are strings, written
   as the sequence of their pieces with every ":" a piece of its own;
   NoAttr is an attribute the element does not have *)
NoAttr == <<>>
FormElement(action, method, fields) ==
    [action |-> action, method |-> method, fields |-> fields]

LoginForm == FormElement(<<"/login">>, <<"post">>, <<"user">>)
LoginFormFull == FormElement(<<"/login">>, <<"post">>, <<"user", "pass">>)
SearchForm == FormElement(<<"/search">>, NoAttr, <<"q">>)
ColonMethodForm == FormElement(<<"a">>, <<"b", ":", "get">>, <<"x">>)
ColonActionForm == FormElement(<<"a", ":", "B">>, NoAttr, <<"y">>)

(* str.upper on the pieces that occur *)
UpperPiece(c) ==
    CASE c = "get" -> "GET"
      [] c = "post" -> "POST"
      [] c = "b" -> "B"
      [] OTHER -> c

Upper(str) == [i \in 1..Len(str) |-> UpperPiece(str[i])]

(* _extract_forms and _extract_forms_playwright: action defaults to '',
   method defaults to 'get' and is upper-cased *)
RECURSIVE ExtractForms(_)
ExtractForms(elements) ==
    IF elements = <<>> THEN <<>>
    ELSE LET f == Head(elements)
         IN <<[action |-> f.action,
               method |-> Upper(IF f.method = NoAttr THEN <<"get">> ELSE f.method),
               fields |-> f.fields]>>
            \o ExtractForms(Tail(elements))

(* what a served page carries: anchors, forms, endpoint strings in inline
   scripts, script sources, response cookies and response headers *)
Page(hrefs, formels, endpoints, scripts, cks, hdrs) ==
    [hrefs |-> hrefs, forms |-> formels, api_endpoints |-> endpoints,
     js_files |-> scripts, cookies |-> cks, headers |-> hdrs]

Pages ==
    { Page(<<>>, <<ColonActionForm, LoginFormFull>>, <<>>, <<"app.js">>,
           "sid" :> "2", "server" :> "nginx"),
      Page(<<HrefA, HrefB>>, <<>>, <<"/api/users">>, <<>>, EmptyDict,
           "server" :> "nginx"),
      Page(<<HrefQ12, HrefQ21, HrefAFrag>>,
           <<LoginForm, SearchForm, ColonMethodForm>>, <<"/api/users">>,
           <<"app.js", "lib.js">>, "sid" :> "1", "server" :> "apache"),
      Page(<<HrefPrivate, HrefRelB, HrefEvil, HrefPdf, HrefBHtml>>,
           <<LoginForm, LoginForm>>,
           <<"/api/items">>, <<"lib.js">>, "lang" :> "en", EmptyDict) }

(* link lists a served page may carry *)
LinkLists == { p.hrefs : p \in Pages }

(* what the server (or the browser) may do for one page fetch *)
FetchOutcomes ==
    { [raised |-> TRUE, status |-> 0, hrefs |-> <<>>, page |-> Page(<<>>, <<>>, <<>>, <<>>, EmptyDict, EmptyDict)] }
    \cup { [raised |-> FALSE, status |-> 200, hrefs |-> p.hrefs, page |-> p] : p \in Pages }

(* WebCrawler._crawl_with_requests *)
CrawlWithRequests(cfg, url, depth, out) ==
    IF out.raised
    THEN [raised |-> TRUE, value |-> CrawlResult(url, 0, <<>>, depth, "fetch failed")]
    ELSE [raised |-> FALSE,
          value |-> [CrawlResult(url, out.status, ExtractLinks(cfg, out.hrefs),
                                 depth, NoError)
                     EXCEPT !.forms = ExtractForms(out.page.forms),
                            !.api_endpoints = out.page.api_endpoints,
                            !.js_files = out.page.js_files,
                            !.cookies = out.page.cookies,
                            !.headers = out.page.headers]]

(* WebCrawler._crawl_with_playwright: logs and re-raises on any exception *)
CrawlWithPlaywright(cfg, url, depth, out) ==
    IF out.raised
    THEN [raised |-> TRUE, value |-> CrawlResult(url, 0, <<>>, depth, "fetch failed")]
    ELSE [raised |-> FALSE,
          value |-> [CrawlResult(url, out.status,
                                 ExtractLinksPlaywright(cfg, url, out.hrefs),
                                 depth, NoError)
                     EXCEPT !.forms = ExtractForms(out.page.forms),
                            !.js_files = out.page.js_files,
                            !.cookies = out.page.cookies,
                            !.headers = out.page.headers]]

(* variant: the except branch re-raises *)
CrawlPageExcept_Reraises(res, url, depth, msg) ==
    [results |-> res, none |-> FALSE, raised |-> TRUE,
     ret |-> CrawlResult(url, 0, <<>>, depth, msg)]

(* the except branch of crawl_page: returns an error CrawlResult, results is
   left as it is, and nothing propagates to crawl() *)
CrawlPageExcept(res, url, depth, msg) ==
    [results |-> res, none |-> FALSE, raised |-> FALSE,
     ret |-> CrawlResult(url, 0, <<>>, depth, msg)]

(* WebCrawler._extract_global_data on the record g of the five collections *)
ExtractGlobalData(g, result) ==
    [forms |-> g.forms \o result.forms,
     api_endpoints |-> g.api_endpoints
                       \cup { result.api_endpoints[i] : i \in 1..Len(result.api_endpoints) },
     js_files |-> g.js_files \cup { result.js_files[i] : i \in 1..Len(result.js_files) },
     cookies |-> DictUpdate(g.cookies, result.cookies),
     headers |-> DictUpdate(g.headers, result.headers)]

(* variant: the test always fails *)
AlreadyVisited_Never(url, visited) == FALSE

(* crawl_page: if url in self.visited_urls *)
AlreadyVisited(url, visited) == url \in visited

(* variant: the url is not added *)
MarkVisited_Skipped(visited, url) == visited

(* variant: the visited set is replaced by the one URL *)
MarkVisited_Only(visited, url) == {url}

(* crawl_page: self.visited_urls.add(url) *)
MarkVisited(visited, url) == visited \cup {url}

(* WebCrawler.crawl_page.  `none` says the call returned None, `fetch` that a
   page fetch was issued, `gate` that can_fetch was invoked, `stored` that
   _extract_global_data was called on the result. *)
CrawlPage(cfg, rp, visited, res, url, depth, out) ==
    IF AlreadyVisited(url, visited)
    THEN [visited |-> visited, results |-> res, none |-> TRUE, raised |-> FALSE,
          ret |-> CrawlResult(url, 0, <<>>, depth, NoError),
          fetch |-> FALSE, gate |-> FALSE, stored |-> FALSE, kind |-> "visited"]
    ELSE LET v1 == MarkVisited(visited, url)
             active == RobotsPolicyActive(cfg)
             allowed == CanFetch(rp, url)
             page == IF cfg.use_playwright
                     THEN CrawlWithPlaywright(cfg, url, depth, out)
                     ELSE CrawlWithRequests(cfg, url, depth, out)
         IN IF active /\ allowed.raised
            THEN LET e == CrawlPageExcept(res, url, depth, "AttributeError")
                 IN [visited |-> v1, results |-> e.results, none |-> e.none,
                     raised |-> e.raised, ret |-> e.ret,
                     fetch |-> FALSE, gate |-> TRUE, stored |-> FALSE,
                     kind |-> "gate_error"]
            ELSE IF active /\ ~allowed.value
            THEN [visited |-> v1, results |-> res, none |-> TRUE, raised |-> FALSE,
                  ret |-> CrawlResult(url, 0, <<>>, depth, NoError),
                  fetch |-> FALSE, gate |-> TRUE, stored |-> FALSE,
                  kind |-> "robots_skip"]
            ELSE IF page.raised
            THEN LET e == CrawlPageExcept(res, url, depth, page.value.error)
                 IN [visited |-> v1, results |-> e.results, none |-> e.none,
                     raised |-> e.raised, ret |-> e.ret,
                     fetch |-> TRUE, gate |-> active, stored |-> FALSE,
                     kind |-> "fetch_error"]
            ELSE [visited |-> v1, results |-> Append(res, page.value),
                  none |-> FALSE, raised |-> FALSE, ret |-> page.value,
                  fetch |-> TRUE, gate |-> active, stored |-> TRUE, kind |-> "ok"]

----------------------------------------------------------------------------
(* The crawl loop *)

(* variant: the page budget is not tested *)
LoopCondition_NoBudget(q, res, max_pages) == q # <<>>

(* the while condition of crawl() *)
LoopCondition(q, res, max_pages) == q # <<>> /\ Len(res) < max_pages

(* variant: the head is read but not removed *)
PopLeft_Peek(q) == q

(* deque.popleft(): the queue that remains *)
PopLeft(q) == Tail(q)

(* variant: the sleep sits inside `if result and not result.error` *)
SleptAfterIteration_OnlyOnSuccess(r, before) ==
    IF ~r.raised /\ ~r.none /\ r.ret.error = NoError THEN TRUE
    ELSE before /\ ~r.fetch

(* the end of a loop iteration: await asyncio.sleep(self.config.delay) is
   reached whenever crawl_page returned; `before` is the flag at the start of
   the iteration *)
SleptAfterIteration(r, before) ==
    IF r.raised THEN before /\ ~r.fetch ELSE TRUE

(* variant: appendleft *)
Enqueue_AtFront(q, tasks) == tasks \o q

(* deque.append of each task, in order *)
Enqueue(q, tasks) == q \o tasks

(* variant: off by one *)
DepthExceeded_OffByOne(depth, max_depth) == depth > max_depth + 1

(* the depth test of the loop *)
DepthExceeded(depth, max_depth) == depth > max_depth

RECURSIVE LinkTasks(_, _, _)
LinkTasks(links, visited, depth) ==
    IF links = <<>> THEN <<>>
    ELSE IF Head(links) \notin visited
    THEN <<<<Head(links), depth + 1>>>> \o LinkTasks(Tail(links), visited, depth)
    ELSE LinkTasks(Tail(links), visited, depth)

(* variant: the links are enqueued at the depth of the page *)
NewTasks_SameDepth(r, depth) ==
    IF ~r.none /\ r.ret.error = NoError
    THEN LinkTasks(r.ret.links, r.visited, depth - 1)
    ELSE <<>>

(* the tasks the loop appends after crawl_page returned *)
NewTasks(r, depth) ==
    IF ~r.none /\ r.ret.error = NoError
    THEN LinkTasks(r.ret.links, r.visited, depth)
    ELSE <<>>

----------------------------------------------------------------------------
(* Collaborator passes: what each collaborator may hand back *)

SubdomainOutcomes ==
    { [raised |-> TRUE, subdomains |-> <<>>],
      [raised |-> FALSE, subdomains |-> <<"sub.test.local">>] }

(* guess_endpoints() raises (the wordlist cannot be opened, or it has entries
   and progress.update(task, ...) is reached with `task` rebound to a
   coroutine, see ProgressUpdateRaises), or the wordlist is empty and it
   returns the empty list *)
EndpointOutcomes ==
    { [raised |-> TRUE, results |-> <<>>],
      [raised |-> FALSE, results |-> <<>>] }

(* scan_hidden_files(): the same lines as guess_endpoints() *)
HiddenFileOutcomes ==
    { [raised |-> TRUE, results |-> <<>>],
      [raised |-> FALSE, results |-> <<>>] }

(* variant: the subdomains are appended one level below the seed *)
SubdomainTasks_DepthOne(subs, visited) ==
    [i \in 1..Len(subs) |-> <<Url("https", subs[i], <<>>, <<>>, ""), 1>>]

RECURSIVE SubdomainTasks(_, _)
SubdomainTasks(subs, visited) ==
    IF subs = <<>> THEN <<>>
    ELSE LET u == Url("https", Head(subs), <<>>, <<>>, "")
         IN (IF u \notin visited THEN <<<<u, 0>>>> ELSE <<>>)
            \o SubdomainTasks(Tail(subs), visited)

RECURSIVE FoundTasks(_, _)
FoundTasks(recs, visited) ==
    IF recs = <<>> THEN <<>>
    ELSE (IF Head(recs).found /\ Head(recs).url \notin visited
          THEN <<<<Head(recs).url, 0>>>> ELSE <<>>)
         \o FoundTasks(Tail(recs), visited)

(* variant: the except clause of a pass re-raises *)
PassExcept_Reraises(next_stage) == "aborted"

(* the except clause of a _run_* pass: it prints the failure and returns, and
   crawl() goes on with the statement after the call *)
PassExcept(next_stage) == next_stage

(* the order of the passes in crawl() *)
AfterEndpoints(cfg) == IF cfg.enable_hidden_file_scanning THEN "hidden" ELSE "loop"
AfterSubdomains(cfg) ==
    IF cfg.enable_endpoint_guessing THEN "endpoints" ELSE AfterEndpoints(cfg)
AfterRobots(cfg) ==
    IF cfg.enable_subdomain_enumeration THEN "subdomains" ELSE AfterSubdomains(cfg)

(* the key of _deduplicate_forms: f"{form['action']}:{form['method']}" *)
FormKey(form) == form.action \o <<":">> \o form.method

RECURSIVE DeduplicateFrom(_, _)
DeduplicateFrom(fs, seen) ==
    IF fs = <<>> THEN <<>>
    ELSE LET key == FormKey(Head(fs))
         IN IF key \notin seen
            THEN <<Head(fs)>> \o DeduplicateFrom(Tail(fs), seen \cup {key})
            ELSE DeduplicateFrom(Tail(fs), seen)

(* WebCrawler._deduplicate_forms *)
DeduplicateForms(fs) == DeduplicateFrom(fs, {})

(* the (action, method) pair of an extracted form *)
FormPair(form) == <<form.action, form.method>>

----------------------------------------------------------------------------
(* utils.py: URL strings as the utility functions see them *)

MaxParams == 2      \* a query string holds up to MaxParams parameters

(* A URL string.  `ok` says urlparse accepts it (a string such as
   "http://[bad/p#top" makes urlparse raise ValueError); `qmark` says the
   string has a "?" after the path; query is the sequence of its parameters,
   each a <<key, value>> pair, value "" for "key=". *)
UrlString(ok, s, n, p, qmark, q, f) ==
    [ok |-> ok, scheme |-> s, netloc |-> n, path |-> p, qmark |-> qmark,
     query |-> q, fragment |-> f]

ParamKeys == {"a", "b"}
ParamValues == {"", "1", "2"}

(* the keys in the order sorted() puts them *)
KeyOrder == <<"a", "b">>

QueryStrings ==
    UNION { [1..n -> ParamKeys \X ParamValues] : n \in 0..MaxParams }

(* the strings normalize_url is applied to *)
UtilUrls ==
    { UrlString(ok, "http", BaseHost, <<"p">>, qmark \/ q # <<>>, q, f) :
        ok \in BOOLEAN, qmark \in BOOLEAN, q \in QueryStrings, f \in {"", "top"} }

RECURSIVE ValuesOf(_, _)
ValuesOf(query, k) ==
    IF query = <<>> THEN <<>>
    ELSE (IF Head(query)[1] = k /\ Head(query)[2] # ""
          THEN <<Head(query)[2]>> ELSE <<>>)
         \o ValuesOf(Tail(query), k)

RECURSIVE ParseQsFrom(_, _)
ParseQsFrom(query, seen) ==
    IF query = <<>> THEN <<>>
    ELSE LET k == Head(query)[1]
         IN IF Head(query)[2] = "" \/ k \in seen
            THEN ParseQsFrom(Tail(query), seen)
            ELSE <<<<k, ValuesOf(query, k)>>>>
                 \o ParseQsFrom(Tail(query), seen \cup {k})

(* urllib.parse.parse_qs: the items of the dict in insertion order; each key
   with the list of its values, parameters with a blank value dropped *)
ParseQs(query) == ParseQsFrom(query, {})

RECURSIVE SortedFrom(_, _)
SortedFrom(items, order) ==
    IF order = <<>> THEN <<>>
    ELSE SelectSeq(items, LAMBDA it : it[1] = Head(order))
         \o SortedFrom(items, Tail(order))

(* variant: the items are left in insertion order *)
Sorted_InsertionOrder(items) == items

(* sorted(params.items()) *)
Sorted(items) == SortedFrom(items, KeyOrder)

(* urllib.parse.urlencode(items, doseq=True) *)
RECURSIVE UrlEncode(_)
UrlEncode(items) ==
    IF items = <<>> THEN <<>>
    ELSE [i \in 1..Len(Head(items)[2]) |-> <<Head(items)[1], Head(items)[2][i]>>]
         \o UrlEncode(Tail(items))

(* utils.normalize_url *)
NormalizeUrlString(url) ==
    IF ~url.ok THEN url
    ELSE LET normalized ==
                 UrlString(TRUE, url.scheme, url.netloc, url.path, FALSE, <<>>, "")
         IN IF url.query # <<>>
            THEN [normalized EXCEPT !.qmark = TRUE,
                                    !.query = UrlEncode(Sorted(ParseQs(url.query)))]
            ELSE normalized

(* the strings is_valid_url is applied to, and the base URLs *)
ScopeNetlocs == {"test.local", "test.local:8080", "sub.test.local", "evil.com"}

ScopeUrls ==
    { UrlString(ok, s, n, <<"p">>, FALSE, <<>>, "") :
        ok \in BOOLEAN, s \in {"http", "https", "ftp"}, n \in ScopeNetlocs }

ScopeBases ==
    { UrlString(TRUE, "http", "test.local", <<>>, FALSE, <<>>, ""),
      UrlString(TRUE, "https", "test.local:8080", <<>>, FALSE, <<>>, "") }

(* urlparse(url).hostname: the netloc without its port *)
HostOf(n) == IF n = "test.local:8080" THEN "test.local" ELSE n

(* variant: the scheme is not tested *)
IsValidUrlString_NoSchemeCheck(url, base_domain, include_subdomains) ==
    IF ~url.ok \/ ~base_domain.ok THEN FALSE
    ELSE IF ~include_subdomains /\ url.netloc # base_domain.netloc THEN FALSE
    ELSE IF include_subdomains
            /\ ~HostEndsWith(url.netloc, HostSuffix(base_domain.netloc))
    THEN FALSE
    ELSE TRUE

(* utils.is_valid_url *)
IsValidUrlString(url, base_domain, include_subdomains) ==
    IF ~url.ok \/ ~base_domain.ok THEN FALSE
    ELSE IF ~include_subdomains /\ url.netloc # base_domain.netloc THEN FALSE
    ELSE IF include_subdomains
            /\ ~HostEndsWith(url.netloc, HostSuffix(base_domain.netloc))
    THEN FALSE
    ELSE IF url.scheme \notin {"http", "https"} THEN FALSE
    ELSE TRUE

----------------------------------------------------------------------------
(* config.py: CrawlerConfig and its JSON file *)

None == "None"

ConfigIgnoredExtensions ==
    <<".pdf", ".zip", ".exe", ".dmg", ".mp4", ".mp3", ".avi",
      ".jpg", ".jpeg", ".png", ".gif", ".ico", ".svg">>

ConfigFocusedExtensions ==
    <<".html", ".htm", ".php", ".asp", ".aspx", ".jsp", ".js", ".css", ".xml", ".json">>

Range(s) == { s[i] : i \in 1..Len(s) }

Reverse(s) == [i \in 1..Len(s) |-> s[Len(s) + 1 - i]]

(* variant: `if not self.ignored_extensions` in place of `is None` *)
NewCrawlerConfig_EmptyIsDefault(kw) ==
    [max_depth |-> IF "max_depth" \in DOMAIN kw THEN kw.max_depth ELSE DefaultMaxDepth,
     respect_robots |->
         IF "respect_robots" \in DOMAIN kw THEN kw.respect_robots ELSE TRUE,
     user_agent |-> IF "user_agent" \in DOMAIN kw THEN kw.user_agent ELSE None,
     ignored_extensions |->
         IF "ignored_extensions" \in DOMAIN kw /\ kw.ignored_extensions # {}
         THEN kw.ignored_extensions ELSE Range(ConfigIgnoredExtensions),
     focused_extensions |->
         IF "focused_extensions" \in DOMAIN kw /\ kw.focused_extensions # {}
         THEN kw.focused_extensions ELSE Range(ConfigFocusedExtensions),
     custom_headers |->
         IF "custom_headers" \in DOMAIN kw THEN kw.custom_headers ELSE EmptyDict]

(* the CrawlerConfig constructor with __post_init__: a field that is not given has its
   class default, and a set or dict that is None gets its default value *)
NewCrawlerConfig(kw) ==
    [max_depth |-> IF "max_depth" \in DOMAIN kw THEN kw.max_depth ELSE DefaultMaxDepth,
     respect_robots |->
         IF "respect_robots" \in DOMAIN kw THEN kw.respect_robots ELSE TRUE,
     user_agent |-> IF "user_agent" \in DOMAIN kw THEN kw.user_agent ELSE None,
     ignored_extensions |->
         IF "ignored_extensions" \in DOMAIN kw
         THEN kw.ignored_extensions ELSE Range(ConfigIgnoredExtensions),
     focused_extensions |->
         IF "focused_extensions" \in DOMAIN kw
         THEN kw.focused_extensions ELSE Range(ConfigFocusedExtensions),
     custom_headers |->
         IF "custom_headers" \in DOMAIN kw THEN kw.custom_headers ELSE EmptyDict]

(* the keyword arguments CrawlerConfig is constructed with *)
CrawlerConfigArgs ==
    { [k \in {} |-> None], [max_depth |-> MaxDepthBound] }
    \cup [respect_robots : BOOLEAN,
          user_agent : {None, "bot"},
          ignored_extensions : {{}, {".pdf"}, {".pdf", ".zip"}},
          focused_extensions : {{}, {".html"}, {".html", ".php"}},
          custom_headers : {EmptyDict, "X-Test" :> "1"}]

CrawlerConfigs == { NewCrawlerConfig(kw) : kw \in CrawlerConfigArgs }

(* list(a_set): the elements in an order the set's hashing decides.  Every
   order for a set of up to three elements; for the default sets the written
   order and its reverse. *)
ListsOf(S) ==
    IF S = Range(ConfigIgnoredExtensions)
    THEN {ConfigIgnoredExtensions, Reverse(ConfigIgnoredExtensions)}
    ELSE IF S = Range(ConfigFocusedExtensions)
    THEN {ConfigFocusedExtensions, Reverse(ConfigFocusedExtensions)}
    ELSE { l \in [1..Cardinality(S) -> S] : Range(l) = S }

(* json.dump / json.load of a str-or-None value *)
JsonDump(v) == IF v = None THEN "null" ELSE v
JsonLoad(j) == IF j = "null" THEN None ELSE j

(* variant: custom_headers is left out of the document *)
SaveToFile_WithoutHeaders(cfg) ==
    { [max_depth |-> cfg.max_depth,
       respect_robots |-> cfg.respect_robots,
       user_agent |-> JsonDump(cfg.user_agent),
       ignored_extensions |-> ig,
       focused_extensions |-> fo] :
        ig \in ListsOf(cfg.ignored_extensions),
        fo \in ListsOf(cfg.focused_extensions) }

(* CrawlerConfig.save_to_file: the JSON documents it may write *)
SaveToFile(cfg) ==
    { [max_depth |-> cfg.max_depth,
       respect_robots |-> cfg.respect_robots,
       user_agent |-> JsonDump(cfg.user_agent),
       ignored_extensions |-> ig,
       focused_extensions |-> fo,
       custom_headers |-> cfg.custom_headers] :
        ig \in ListsOf(cfg.ignored_extensions),
        fo \in ListsOf(cfg.focused_extensions) }

(* CrawlerConfig.from_file on a JSON document *)
FromFile(doc) ==
    NewCrawlerConfig(
        [doc EXCEPT !.user_agent = JsonLoad(doc.user_agent),
                    !.ignored_extensions = Range(doc.ignored_extensions),
                    !.focused_extensions = Range(doc.focused_extensions)])

----------------------------------------------------------------------------
(* Resources of a run, the report files, utility-function calls *)

NoResources == [session |-> "none", playwright |-> "none", browser |-> "none"]

(* where setup() may stop: it returns ("ok"), or one of the three Playwright
   awaits raises *)
SetupOutcomes == {"ok", "start_raises", "launch_raises", "new_page_raises"}

(* WebCrawler.setup: the fields it has assigned when it stops at `outcome` *)
SetUp(cfg, outcome) ==
    IF ~cfg.use_playwright
    THEN [session |-> "open", playwright |-> "none", browser |-> "none"]
    ELSE [session |-> "open",
          playwright |-> IF outcome = "start_raises" THEN "none" ELSE "open",
          browser |-> IF outcome \in {"start_raises", "launch_raises"}
                      THEN "none" ELSE "open"]

(* whether setup() raised *)
SetupRaised(cfg, outcome) == cfg.use_playwright /\ outcome # "ok"

Close(r) == IF r = "open" THEN "closed" ELSE r

(* WebCrawler.cleanup *)
CleanUp(res) ==
    [session |-> Close(res.session), playwright |-> Close(res.playwright),
     browser |-> Close(res.browser)]

NothingSaved == [written |-> FALSE, pages |-> <<>>, forms |-> <<>>]

NoCall == [fn |-> "none"]

NoProbe == [pc |-> "none"]

----------------------------------------------------------------------------
(* State machine *)

TypeOK ==
    /\ config \in Configs
    /\ pc \in {"new", "start", "subdomains", "endpoints", "hidden", "loop", "done",
              "aborted", "saved", "unwinding", "exited"}
    /\ can_fetch_calls \in Nat

(* WebCrawler.__init__ *)
NewCrawler(cfgs) ==
    /\ config \in cfgs
    /\ visited_urls = {}
    /\ url_queue = << <<config.base_url, 0>> >>
    /\ results = <<>>
    /\ robots_parser = NewRobotsParser
    /\ robots_data = RobotsError("Unparsed")
    /\ subdomains = <<>>
    /\ guessed_endpoints = <<>>
    /\ hidden_files = <<>>
    /\ fetched = <<>>
    /\ dequeued = {}
    /\ can_fetch_calls = 0
    /\ last = "none"
    /\ forms = <<>>
    /\ api_endpoints = {}
    /\ js_files = {}
    /\ cookies = EmptyDict
    /\ headers = EmptyDict
    /\ saved = NothingSaved
    /\ pure = NoCall
    /\ slept = FALSE

(* a crawler whose setup() has returned, at the entry of crawl() *)
Init ==
    /\ NewCrawler(Configs)
    /\ probe = NoProbe
    /\ pc = "start"
    /\ resources = SetUp(config, "ok")

(* crawl(): robots_data = await self.parse_robots_txt() *)
ParseRobots ==
    /\ pc = "start"
    /\ \E resp \in RobotsResponses :
         LET r == ParseRobotsTxt(robots_parser, resp)
         IN /\ robots_parser' = r.parser
            /\ robots_data' = r.data
    /\ pc' = AfterRobots(config)
    /\ UNCHANGED <<config, visited_urls, url_queue, results, subdomains,
                   guessed_endpoints, hidden_files, fetched, dequeued,
                   can_fetch_calls, last, aggregates, slept, probe, environment>>

(* WebCrawler._run_subdomain_enumeration *)
RunSubdomainEnumeration ==
    /\ pc = "subdomains"
    /\ \E o \in SubdomainOutcomes :
         IF o.raised
         THEN /\ UNCHANGED <<subdomains, url_queue>>
              /\ pc' = PassExcept(AfterSubdomains(config))
              /\ last' = "pass_error"
         ELSE /\ subdomains' = o.subdomains
              /\ url_queue' = Enqueue(url_queue, SubdomainTasks(o.subdomains, visited_urls))
              /\ pc' = AfterSubdomains(config)
              /\ last' = "pass_ok"
    /\ UNCHANGED <<config, visited_urls, results, robots_parser, robots_data,
                   guessed_endpoints, hidden_files, fetched, dequeued,
                   can_fetch_calls, aggregates, slept, probe, environment>>

(* WebCrawler._run_endpoint_guessing *)
RunEndpointGuessing ==
    /\ pc = "endpoints"
    /\ \E o \in EndpointOutcomes :
         IF o.raised
         THEN /\ UNCHANGED <<guessed_endpoints, url_queue>>
              /\ pc' = PassExcept(AfterEndpoints(config))
              /\ last' = "pass_error"
         ELSE /\ guessed_endpoints' = o.results
              /\ url_queue' = Enqueue(url_queue, FoundTasks(o.results, visited_urls))
              /\ pc' = AfterEndpoints(config)
              /\ last' = "pass_ok"
    /\ UNCHANGED <<config, visited_urls, results, robots_parser, robots_data,
                   subdomains, hidden_files, fetched, dequeued,
                   can_fetch_calls, aggregates, slept, probe, environment>>

(* WebCrawler._run_hidden_file_scanning *)
RunHiddenFileScanning ==
    /\ pc = "hidden"
    /\ \E o \in HiddenFileOutcomes :
         IF o.raised
         THEN /\ UNCHANGED <<hidden_files, url_queue>>
              /\ pc' = PassExcept("loop")
              /\ last' = "pass_error"
         ELSE /\ hidden_files' = o.results
              /\ url_queue' = Enqueue(url_queue, FoundTasks(o.results, visited_urls))
              /\ pc' = "loop"
              /\ last' = "pass_ok"
    /\ UNCHANGED <<config, visited_urls, results, robots_parser, robots_data,
                   subdomains, guessed_endpoints, fetched, dequeued,
                   can_fetch_calls, aggregates, slept, probe, environment>>

(* loop iteration that ends at `continue`: the task is deeper than max_depth *)
SkipTooDeep ==
    /\ pc = "loop"
    /\ LoopCondition(url_queue, results, config.max_pages)
    /\ DepthExceeded(Head(url_queue)[2], config.max_depth)
    /\ url_queue' = PopLeft(url_queue)
    /\ dequeued' = dequeued \cup {Head(url_queue)}
    /\ last' = "too_deep"
    /\ UNCHANGED <<config, pc, visited_urls, results, robots_parser, robots_data,
                   subdomains, guessed_endpoints, hidden_files, fetched,
                   can_fetch_calls, aggregates, slept, probe, environment>>

(* loop iteration that calls crawl_page, enqueues the links and sleeps *)
CrawlIteration ==
    /\ pc = "loop"
    /\ LoopCondition(url_queue, results, config.max_pages)
    /\ ~DepthExceeded(Head(url_queue)[2], config.max_depth)
    /\ \E out \in FetchOutcomes :
         LET url == Head(url_queue)[1]
             depth == Head(url_queue)[2]
             r == CrawlPage(config, robots_parser, visited_urls, results,
                            url, depth, out)
             g == [forms |-> forms, api_endpoints |-> api_endpoints,
                   js_files |-> js_files, cookies |-> cookies, headers |-> headers]
             g2 == IF r.stored THEN ExtractGlobalData(g, r.ret) ELSE g
         IN /\ visited_urls' = r.visited
            /\ results' = r.results
            /\ forms' = g2.forms
            /\ api_endpoints' = g2.api_endpoints
            /\ js_files' = g2.js_files
            /\ cookies' = g2.cookies
            /\ headers' = g2.headers
            /\ fetched' = IF r.fetch
                          THEN Append(fetched, [url |-> url, depth |-> depth,
                                                raised |-> out.raised,
                                                hrefs |-> out.hrefs])
                          ELSE fetched
            /\ can_fetch_calls' = IF r.gate THEN can_fetch_calls + 1 ELSE can_fetch_calls
            /\ last' = r.kind
            /\ slept' = SleptAfterIteration(r, slept)
            /\ IF r.raised
               THEN /\ pc' = "aborted"
                    /\ url_queue' = PopLeft(url_queue)
               ELSE /\ pc' = pc
                    /\ url_queue' = Enqueue(PopLeft(url_queue), NewTasks(r, depth))
    /\ dequeued' = dequeued \cup {Head(url_queue)}
    /\ UNCHANGED <<config, robots_parser, robots_data, subdomains,
                   guessed_endpoints, hidden_files, probe, environment>>

(* the while condition is false: crawl() returns the report *)
ExitLoop ==
    /\ pc = "loop"
    /\ ~LoopCondition(url_queue, results, config.max_pages)
    /\ pc' = "done"
    /\ UNCHANGED <<config, visited_urls, url_queue, results, robots_parser,
                   robots_data, subdomains, guessed_endpoints, hidden_files,
                   fetched, dequeued, can_fetch_calls, last, aggregates, slept, probe,
                   environment>>

Next ==
    \/ ParseRobots
    \/ RunSubdomainEnumeration
    \/ RunEndpointGuessing
    \/ RunHiddenFileScanning
    \/ SkipTooDeep
    \/ CrawlIteration
    \/ ExitLoop

Spec == Init /\ [][Next]_vars

(* the event loop runs the single crawl coroutine until it returns *)
FairSpec == Spec /\ WF_vars(Next)

----------------------------------------------------------------------------
(* main(): the run from `async with WebCrawler(config)` to the exit *)

(* the configurations main() can build: override_robots = not respect_robots,
   and the extension sets are the defaults of WebCrawler.__init__ *)
MainConfigs ==
    { c \in Configs :
        /\ c.override_robots = ~c.respect_robots
        /\ c.focused_extensions = DefaultFocusedExtensions }

MainInit ==
    /\ NewCrawler(MainConfigs)
    /\ probe = NoProbe
    /\ pc = "new"
    /\ resources = NoResources

(* WebCrawler.__aenter__: await self.setup().  When setup() raises, the
   `async with` statement does not call __aexit__ and the exception reaches
   the except clauses of main() *)
Setup ==
    /\ pc = "new"
    /\ \E o \in SetupOutcomes :
         /\ resources' = SetUp(config, o)
         /\ IF SetupRaised(config, o)
            THEN pc' = "exited" /\ last' = "setup_error"
            ELSE pc' = "start" /\ last' = last
    /\ UNCHANGED <<config, visited_urls, url_queue, results, robots_parser,
                   robots_data, subdomains, guessed_endpoints, hidden_files,
                   fetched, dequeued, can_fetch_calls, aggregates, slept, probe, saved, pure>>

(* Ctrl-C while crawl() is suspended at an await of a pass or at the
   asyncio.sleep that ends a loop iteration: the coroutine is cancelled, no
   except clause of crawl() or crawl_page catches it, and the `async with`
   block is left through __aexit__ *)
Interrupt ==
    /\ \/ pc \in {"start", "subdomains", "endpoints", "hidden"}
       \/ pc = "loop" /\ last \notin {"none", "too_deep", "pass_error", "pass_ok"}
    /\ pc' = "unwinding"
    /\ last' = "interrupt"
    /\ UNCHANGED <<config, visited_urls, url_queue, results, robots_parser,
                   robots_data, subdomains, guessed_endpoints, hidden_files,
                   fetched, dequeued, can_fetch_calls, aggregates, slept, probe, environment>>

(* run_crawler after crawl() returned: display_report, save_to_json,
   save_to_sqlite *)
SaveReport ==
    /\ pc = "done"
    /\ saved' = [written |-> TRUE,
                 pages |-> [i \in 1..Len(results) |-> results[i].url],
                 forms |-> DeduplicateForms(forms)]
    /\ pc' = "saved"
    /\ UNCHANGED <<config, visited_urls, url_queue, results, robots_parser,
                   robots_data, subdomains, guessed_endpoints, hidden_files,
                   fetched, dequeued, can_fetch_calls, last, aggregates, slept, probe,
                   resources, pure>>

(* WebCrawler.__aexit__: await self.cleanup(); then main() prints and returns *)
Cleanup ==
    /\ pc \in {"saved", "unwinding"}
    /\ resources' = CleanUp(resources)
    /\ pc' = "exited"
    /\ UNCHANGED <<config, visited_urls, url_queue, results, robots_parser,
                   robots_data, subdomains, guessed_endpoints, hidden_files,
                   fetched, dequeued, can_fetch_calls, last, aggregates, slept, probe,
                   saved, pure>>

MainNext ==
    \/ Setup
    \/ Next
    \/ Interrupt
    \/ SaveReport
    \/ Cleanup

MainSpec == MainInit /\ [][MainNext]_vars

----------------------------------------------------------------------------
(* Calls of the utility functions, of link extraction and of the
   configuration file operations, on a crawler that is not running *)

HrefSub  == Href("https", "sub.test.local", <<"x.html">>, <<>>, "", TRUE)
HrefPort == Href("http", "test.local:8080", <<"x.html">>, <<>>, "", TRUE)
HrefFtp  == Href("ftp", "test.local", <<"x.html">>, <<>>, "", TRUE)

(* anchors of a page that point to several hosts *)
ScopeLinkLists ==
    LinkLists \cup { <<HrefEvil, HrefSub, HrefBHtml, HrefPort>>, <<HrefFtp, HrefBHtml>> }

ScopeConfigs ==
    { [DefaultConfig EXCEPT !.include_subdomains = inc, !.use_playwright = pw] :
        inc \in BOOLEAN, pw \in BOOLEAN }

PureInit ==
    /\ NewCrawler({DefaultConfig})
    /\ probe = NoProbe
    /\ pc = "new"
    /\ resources = NoResources

(* normalize_url(url) *)
CallNormalizeUrl ==
    /\ \E u \in UtilUrls :
         pure' = [fn |-> "normalize_url", arg |-> u, value |-> NormalizeUrlString(u)]
    /\ UNCHANGED <<config, pc, visited_urls, url_queue, results, robots_parser,
                   robots_data, subdomains, guessed_endpoints, hidden_files,
                   fetched, dequeued, can_fetch_calls, last, aggregates, slept, probe,
                   resources, saved>>

(* is_valid_url(url, base_domain, include_subdomains) *)
CallIsValidUrl ==
    /\ \E u \in ScopeUrls, b \in ScopeBases, inc \in BOOLEAN :
         pure' = [fn |-> "is_valid_url", arg |-> u, base_domain |-> b,
                  include_subdomains |-> inc,
                  value |-> IsValidUrlString(u, b, inc)]
    /\ UNCHANGED <<config, pc, visited_urls, url_queue, results, robots_parser,
                   robots_data, subdomains, guessed_endpoints, hidden_files,
                   fetched, dequeued, can_fetch_calls, last, aggregates, slept, probe,
                   resources, saved>>

(* link extraction on the page fetched at page_url (the seed, or a page one
   directory down), and the tasks crawl() appends for the links when nothing
   is visited yet *)
CallExtractLinks ==
    /\ \E cfg \in ScopeConfigs, hrefs \in ScopeLinkLists :
         \E page_url \in {cfg.base_url, PrivateSeed} :
            LET links == IF cfg.use_playwright
                         THEN ExtractLinksPlaywright(cfg, page_url, hrefs)
                         ELSE ExtractLinks(cfg, hrefs)
            IN pure' = [fn |-> "_extract_links", arg |-> hrefs, cfg |-> cfg,
                        page_url |-> page_url,
                        value |-> links, tasks |-> LinkTasks(links, {}, 0)]
    /\ UNCHANGED <<config, pc, visited_urls, url_queue, results, robots_parser,
                   robots_data, subdomains, guessed_endpoints, hidden_files,
                   fetched, dequeued, can_fetch_calls, last, aggregates, slept, probe,
                   resources, saved>>

(* config.save_to_file(path) *)
CallSaveToFile ==
    /\ \E c \in CrawlerConfigs :
         \E doc \in SaveToFile(c) :
            pure' = [fn |-> "save_to_file", arg |-> c, value |-> doc]
    /\ UNCHANGED <<config, pc, visited_urls, url_queue, results, robots_parser,
                   robots_data, subdomains, guessed_endpoints, hidden_files,
                   fetched, dequeued, can_fetch_calls, last, aggregates, slept, probe,
                   resources, saved>>

(* CrawlerConfig.from_file(path) on the file just written *)
CallFromFile ==
    /\ pure.fn = "save_to_file"
    /\ pure' = [fn |-> "from_file", arg |-> pure.value, value |-> FromFile(pure.value),
                written_from |-> pure.arg]
    /\ UNCHANGED <<config, pc, visited_urls, url_queue, results, robots_parser,
                   robots_data, subdomains, guessed_endpoints, hidden_files,
                   fetched, dequeued, can_fetch_calls, last, aggregates, slept, probe,
                   resources, saved>>

(* robots.txt bodies of at most MaxRobotsLines lines *)
MaxRobotsLines == 3

RobotsLines ==
    { UserAgentLine("*"), UserAgentLine("otherbot"), DisallowLine(<<"private">>),
      AllowLine(<<>>), CrawlDelayLine(2), BadCrawlDelayLine }

RobotsFiles == UNION { [1..n -> RobotsLines] : n \in 0..MaxRobotsLines }

(* utils.parse_robots_txt_content: one iteration of the line loop; st holds
   the lists being built and current_user_agent *)
ContentLine(st, line) ==
    LET scoped == st.current_user_agent \in {"*", None}
    IN CASE line.directive = "User-agent" ->
              [st EXCEPT !.current_user_agent = line.value,
                         !.user_agents = IF \E i \in 1..Len(@) : @[i] = line.value
                                         THEN @ ELSE Append(@, line.value)]
         [] line.directive = "Disallow" ->
              IF scoped THEN [st EXCEPT !.disallowed_paths = Append(@, line.value)] ELSE st
         [] line.directive = "Allow" ->
              IF scoped THEN [st EXCEPT !.allowed_paths = Append(@, line.value)] ELSE st
         [] line.directive = "Crawl-delay" ->
              IF line.numeric THEN [st EXCEPT !.crawl_delay = line.value] ELSE st
         [] OTHER -> st

RECURSIVE ContentLines(_, _)
ContentLines(st, lines) ==
    IF lines = <<>> THEN st ELSE ContentLines(ContentLine(st, Head(lines)), Tail(lines))

(* utils.parse_robots_txt_content *)
ParseRobotsTxtContent(content) ==
    LET st == ContentLines([disallowed_paths |-> <<>>, allowed_paths |-> <<>>,
                            crawl_delay |-> 0, user_agents |-> <<>>,
                            current_user_agent |-> None], content)
    IN [disallowed_paths |-> st.disallowed_paths,
        allowed_paths |-> st.allowed_paths,
        crawl_delay |-> st.crawl_delay,
        user_agents |-> st.user_agents]

(* RobotsTxtParser(base_url).parse_robots_txt(session) on a new parser, as
   the first call *)
CallParseRobotsTxt ==
    /\ pure = NoCall
    /\ \E resp \in { r \in [raised : BOOLEAN, status : {200, 404},
                            content : RobotsFiles, read_raised : BOOLEAN] :
                       /\ r.raised => r.status = 404
                       /\ r.status = 404 => r.content = <<>> /\ ~r.read_raised } :
         pure' = [fn |-> "parse_robots_txt", arg |-> resp,
                  value |-> ParseRobotsTxt(NewRobotsParser, resp).data,
                  parser |-> ParseRobotsTxt(NewRobotsParser, resp).parser,
                  requests |-> RobotsRequests(resp)]
    /\ UNCHANGED <<config, pc, visited_urls, url_queue, results, robots_parser,
                   robots_data, subdomains, guessed_endpoints, hidden_files,
                   fetched, dequeued, can_fetch_calls, last, aggregates, slept, probe,
                   resources, saved>>

(* parse_robots_txt(session) a second time on the same parser, as crawl()
   does after a caller parsed already; robots.txt has the content it had, and
   the request may fail this time *)
CallParseRobotsTxtAgain ==
    /\ pure # NoCall
    /\ pure.fn = "parse_robots_txt"
    /\ \E resp \in { r \in [raised : BOOLEAN, status : {200, 404},
                            content : {<<>>, pure.arg.content},
                            read_raised : BOOLEAN] :
                       /\ r.raised => r.status = 404
                       /\ r.status = 404 => r.content = <<>> /\ ~r.read_raised
                       /\ r.status = 200 => r.content = pure.arg.content } :
         pure' = [fn |-> "parse_robots_txt_again", arg |-> pure.arg,
                  first |-> pure.parser, again |-> resp,
                  value |-> ParseRobotsTxt(pure.parser, resp).data,
                  parser |-> ParseRobotsTxt(pure.parser, resp).parser]
    /\ UNCHANGED <<config, pc, visited_urls, url_queue, results, robots_parser,
                   robots_data, subdomains, guessed_endpoints, hidden_files,
                   fetched, dequeued, can_fetch_calls, last, aggregates, slept, probe,
                   resources, saved>>

(* parse_robots_txt_content(content), as the first call *)
CallParseRobotsTxtContent ==
    /\ pure = NoCall
    /\ \E content \in RobotsFiles :
         pure' = [fn |-> "parse_robots_txt_content", arg |-> content,
                  value |-> ParseRobotsTxtContent(content)]
    /\ UNCHANGED <<config, pc, visited_urls, url_queue, results, robots_parser,
                   robots_data, subdomains, guessed_endpoints, hidden_files,
                   fetched, dequeued, can_fetch_calls, last, aggregates, slept, probe,
                   resources, saved>>

(* utils.is_robots_allowed: paths and robots.txt entries as strings of
   characters *)
MaxRobotsEntries == 2

RobotsEntries == { <<>>, <<"/">>, <<"/", "p">> }

UrlPaths == { <<>>, <<"/">>, <<"/", "p">>, <<"/", "p", "p">>, <<"/", "q">> }

RobotsEntryLists == UNION { [1..n -> RobotsEntries] : n \in 0..MaxRobotsEntries }

(* str.startswith *)
StartsWith(s, prefix) ==
    Len(prefix) <= Len(s) /\ SubSeq(s, 1, Len(prefix)) = prefix

(* utils.is_robots_allowed(url, robots_data), path = urlparse(url).path *)
IsRobotsAllowed(path, robots) ==
    IF \E i \in 1..Len(robots.disallowed_paths) :
         StartsWith(path, robots.disallowed_paths[i])
    THEN FALSE
    ELSE IF robots.allowed_paths # <<>>
         THEN \E i \in 1..Len(robots.allowed_paths) :
                StartsWith(path, robots.allowed_paths[i])
         ELSE TRUE

(* is_robots_allowed(url, robots_data), as the first call *)
CallIsRobotsAllowed ==
    /\ pure = NoCall
    /\ \E path \in UrlPaths, dis \in RobotsEntryLists, al \in RobotsEntryLists :
         LET robots == [disallowed_paths |-> dis, allowed_paths |-> al]
         IN pure' = [fn |-> "is_robots_allowed", arg |-> path, robots_data |-> robots,
                     value |-> IsRobotsAllowed(path, robots)]
    /\ UNCHANGED <<config, pc, visited_urls, url_queue, results, robots_parser,
                   robots_data, subdomains, guessed_endpoints, hidden_files,
                   fetched, dequeued, can_fetch_calls, last, aggregates, slept, probe,
                   resources, saved>>

(* RobotsTxtParser.can_fetch(url) after parse_robots_txt, as the first call *)
CallCanFetch ==
    /\ pure = NoCall
    /\ \E resp \in RobotsResponses,
          url \in {RootUrl, Url("http", BaseHost, <<"private", "page.html">>, <<>>, ""),
                 Url("http", BaseHost, <<"a">>, <<>>, "")} :
         LET rp == ParseRobotsTxt(NewRobotsParser, resp).parser
             r  == CanFetch(rp, url)
         IN pure' = [fn |-> "can_fetch", arg |-> url, parser |-> rp,
                     raised |-> r.raised, value |-> r.value]
    /\ UNCHANGED <<config, pc, visited_urls, url_queue, results, robots_parser,
                   robots_data, subdomains, guessed_endpoints, hidden_files,
                   fetched, dequeued, can_fetch_calls, last, aggregates, slept, probe,
                   resources, saved>>

PureNext ==
    \/ CallNormalizeUrl
    \/ CallIsValidUrl
    \/ CallExtractLinks
    \/ CallSaveToFile
    \/ CallFromFile

PureSpec == PureInit /\ [][PureNext]_vars

(* the calls of the robots.txt functions *)
RobotsNext ==
    \/ CallParseRobotsTxt
    \/ CallParseRobotsTxtAgain
    \/ CallParseRobotsTxtContent
    \/ CallIsRobotsAllowed
    \/ CallCanFetch

RobotsSpec == PureInit /\ [][RobotsNext]_vars

----------------------------------------------------------------------------
(* One call of EndpointGuesser.guess_endpoints or
   HiddenFileScanner.scan_hidden_files: the probe tasks that gather() runs
   concurrently, the semaphore they share, and what the call hands back *)

MaxWords == 3
MaxConcurrentBound == 2

(* the status_codes that count as found *)
StatusCodes == {200, 201, 301, 302, 401, 403, 405, 500}

Words == {".env", "admin", "api", "zzz"}

(* what the server does with a request for a wordlist entry *)
Answer(word, method) ==
    CASE word = "api"   -> [raised |-> FALSE, status |-> 200]
      [] word = "admin" -> [raised |-> FALSE, status |-> 403]
      [] word = ".env"  -> IF method = "GET" THEN [raised |-> TRUE, status |-> 0]
                           ELSE [raised |-> FALSE, status |-> 200]
      [] OTHER          -> [raised |-> FALSE, status |-> 404]

(* position of a wordlist entry in the order of str comparison *)
PathRank(word) ==
    CASE word = ".env" -> 1 [] word = "admin" -> 2 [] word = "api" -> 3 [] OTHER -> 4

(* HiddenFileScanner._get_sensitivity_level *)
SensitivityLevel(word) == IF word = ".env" THEN 1 ELSE 5

(* the wordlist file: its entries, none twice *)
Wordlists ==
    { w \in UNION { [1..n -> Words] : n \in 0..MaxWords } :
        \A i, j \in 1..Len(w) : i # j => w[i] # w[j] }

NotDone == [found |-> FALSE, path |-> "pending"]

(* the state of the call after the tasks are created and gather() is awaited *)
NewProbe(kind, wordlist, max_concurrent) ==
    [pc |-> "gather", kind |-> kind, wordlist |-> wordlist,
     max_concurrent |-> max_concurrent,
     value |-> max_concurrent,
     task |-> [i \in 1..Len(wordlist) |-> "start"],
     result |-> [i \in 1..Len(wordlist) |-> NotDone],
     clock |-> 0,
     returned |-> <<>>]

(* variant: a semaphore that never blocks *)
SemaphoreFree_Always(value) == TRUE

(* asyncio.Semaphore.acquire returns without waiting when _value > 0 *)
SemaphoreFree(value) == value > 0

(* the dict _test_endpoint / _test_hidden_file returns for a response whose
   status is in status_codes *)
FoundRecord(kind, word, method, status, now) ==
    IF kind = "hidden"
    THEN [path |-> word, method |-> method, status_code |-> status, found |-> TRUE,
          sensitivity_level |-> SensitivityLevel(word), timestamp |-> now]
    ELSE [path |-> word, method |-> method, status_code |-> status, found |-> TRUE,
          timestamp |-> now]

NotFoundRecord(word) == [path |-> word, found |-> FALSE]

(* the key of discovered.sort in guess_endpoints and in scan_hidden_files *)
SortKey(kind, rec) ==
    IF kind = "hidden"
    THEN <<SensitivityLevel(rec.path), rec.status_code>>
    ELSE <<rec.status_code, PathRank(rec.path)>>

(* comparison of two key tuples *)
KeyLess(a, b) == a[1] < b[1] \/ (a[1] = b[1] /\ a[2] < b[2])

(* list.sort(key=...) is stable: an element goes behind the elements whose
   key is not greater *)
StableInsert(kind, sorted, rec) ==
    LET before == SelectSeq(sorted, LAMBDA r : ~KeyLess(SortKey(kind, rec), SortKey(kind, r)))
        after  == SelectSeq(sorted, LAMBDA r : KeyLess(SortKey(kind, rec), SortKey(kind, r)))
    IN before \o <<rec>> \o after

RECURSIVE StableSortFrom(_, _, _)
StableSortFrom(kind, recs, sorted) ==
    IF recs = <<>> THEN sorted
    ELSE StableSortFrom(kind, Tail(recs), StableInsert(kind, sorted, Head(recs)))

StableSort(kind, recs) == StableSortFrom(kind, recs, <<>>)

(* the results of gather() in task order, filtered by result.get('found') *)
Discovered(result) == SelectSeq(result, LAMBDA r : r.found)

(* progress.update(task, ...): inside the loop that creates the coroutines,
   `task` is rebound to the last coroutine, so with a wordlist that is not
   empty the argument is no task id of the Progress and the lookup of the
   task raises KeyError *)
ProgressUpdateRaises(wordlist) == wordlist # <<>>

ProbeInit ==
    /\ NewCrawler({DefaultConfig})
    /\ pc = "new"
    /\ resources = NoResources
    /\ probe \in { NewProbe(kind, w, n) :
                     kind \in {"endpoints", "hidden"}, w \in Wordlists,
                     n \in 0..MaxConcurrentBound }

(* a task enters `async with semaphore` *)
Acquire ==
    /\ probe.pc = "gather"
    /\ SemaphoreFree(probe.value)
    /\ \E i \in 1..Len(probe.wordlist) :
         /\ probe.task[i] = "start"
         /\ probe' = [probe EXCEPT !.value = @ - 1, !.task[i] = "GET"]
    /\ UNCHANGED <<config, pc, visited_urls, url_queue, results, robots_parser,
                   robots_data, subdomains, guessed_endpoints, hidden_files,
                   fetched, dequeued, can_fetch_calls, last, aggregates, slept,
                   resources, saved, pure>>

(* the request of one method comes back: the task returns a found record,
   goes on to the next method, or returns the not-found record; returning
   leaves the `async with` and releases the semaphore *)
Respond ==
    /\ probe.pc = "gather"
    /\ \E i \in 1..Len(probe.wordlist) :
         /\ probe.task[i] \in {"GET", "HEAD"}
         /\ LET word   == probe.wordlist[i]
                method == probe.task[i]
                a      == Answer(word, method)
            IN IF ~a.raised /\ a.status \in StatusCodes
               THEN probe' = [probe EXCEPT
                                !.task[i] = "done", !.value = @ + 1, !.clock = @ + 1,
                                !.result[i] = FoundRecord(probe.kind, word, method,
                                                          a.status, probe.clock)]
               ELSE IF method = "GET"
               THEN probe' = [probe EXCEPT !.task[i] = "HEAD"]
               ELSE probe' = [probe EXCEPT
                                !.task[i] = "done", !.value = @ + 1,
                                !.result[i] = NotFoundRecord(word)]
    /\ UNCHANGED <<config, pc, visited_urls, url_queue, results, robots_parser,
                   robots_data, subdomains, guessed_endpoints, hidden_files,
                   fetched, dequeued, can_fetch_calls, last, aggregates, slept,
                   resources, saved, pure>>

(* gather() returns when every task is done; the found records are collected,
   progress.update is called, the list is sorted and returned *)
FinishCall ==
    /\ probe.pc = "gather"
    /\ \A i \in 1..Len(probe.wordlist) : probe.task[i] = "done"
    /\ IF ProgressUpdateRaises(probe.wordlist)
       THEN probe' = [probe EXCEPT !.pc = "raised"]
       ELSE probe' = [probe EXCEPT
                        !.pc = "returned",
                        !.returned = StableSort(probe.kind, Discovered(probe.result))]
    /\ UNCHANGED <<config, pc, visited_urls, url_queue, results, robots_parser,
                   robots_data, subdomains, guessed_endpoints, hidden_files,
                   fetched, dequeued, can_fetch_calls, last, aggregates, slept,
                   resources, saved, pure>>

ProbeNext ==
    \/ Acquire
    \/ Respond
    \/ FinishCall

ProbeSpec == ProbeInit /\ [][ProbeNext]_vars

----------------------------------------------------------------------------
(* Report-time grouping of the aggregated endpoints.  An endpoint string is
   the sequence of its pieces: "/", a digit, "v", and words that hold none of
   these. *)

MaxEndpoints == 3

Digits == {"0", "1", "2", "3", "4", "5", "6", "7", "8", "9"}

(* strings the patterns of _extract_api_endpoints find in scripts *)
EndpointStrings ==
    { <<"/", "api", "/", "users">>,            \* /api/users
      <<"/", "rest", "/", "items">>,           \* /rest/items
      <<"/", "v", "1", "/", "users">>,         \* /v1/users
      <<"/", "api", "/", "v", "1">>,           \* /api/v1
      <<"/", "rest", "/", "api", "/", "x">>,   \* /rest/api/x
      <<"/", "v", "ideos", "/", "2">>,         \* /videos/2
      <<"/", "2", "/", "v", "iew">>,           \* /2/view
      <<"/", "v", "iew">>,                     \* /view
      <<"/", "about">> }                       \* /about

(* list(self.api_endpoints): the endpoints of the set in some order *)
EndpointLists ==
    { l \in UNION { [1..n -> EndpointStrings] : n \in 0..MaxEndpoints } :
        \A i, j \in 1..Len(l) : i # j => l[i] # l[j] }

(* sub in s *)
Contains(s, sub) ==
    \E i \in 1..(Len(s) - Len(sub) + 1) : SubSeq(s, i, i + Len(sub) - 1) = sub

(* any(c.isdigit() for c in endpoint) *)
AnyDigit(s) == \E i \in 1..Len(s) : s[i] \in Digits

(* the if/elif chain of _group_endpoints *)
EndpointType(endpoint) ==
    IF Contains(endpoint, <<"/", "api", "/">>) THEN "api"
    ELSE IF Contains(endpoint, <<"/", "rest", "/">>) THEN "rest"
    ELSE IF Contains(endpoint, <<"/", "v">>) /\ AnyDigit(endpoint) THEN "versioned"
    ELSE "other"

(* WebCrawler._group_endpoints: dict(grouped), a key for every type that got
   an endpoint, the endpoints of a type in list order *)
GroupEndpoints(endpoints) ==
    [t \in { EndpointType(endpoints[i]) : i \in 1..Len(endpoints) } |->
        SelectSeq(endpoints, LAMBDA e : EndpointType(e) = t)]

(* self._group_endpoints(unique_endpoints) in _generate_report *)
CallGroupEndpoints ==
    /\ pure = NoCall
    /\ \E endpoints \in EndpointLists :
         pure' = [fn |-> "_group_endpoints", arg |-> endpoints,
                  value |-> GroupEndpoints(endpoints)]
    /\ UNCHANGED <<config, pc, visited_urls, url_queue, results, robots_parser,
                   robots_data, subdomains, guessed_endpoints, hidden_files,
                   fetched, dequeued, can_fetch_calls, last, aggregates, slept, probe,
                   resources, saved>>

ReportNext ==
    \/ CallGroupEndpoints

ReportSpec == PureInit /\ [][ReportNext]_vars

----------------------------------------------------------------------------
(* Properties *)

ResultUrls == { results[i].url : i \in 1..Len(results) }

(* str.startswith on paths, segment by segment *)
PathStartsWith(p, prefix) ==
    Len(prefix) <= Len(p) /\ SubSeq(p, 1, Len(prefix)) = prefix

Count(s, x) == Cardinality({ i \in 1..Len(s) : s[i] = x })

(* same scheme, host and path; queries equal up to the order of parameters;
   fragments ignored *)
SameNormalized(u, v) ==
    /\ u.scheme = v.scheme
    /\ u.netloc = v.netloc
    /\ u.path = v.path
    /\ Len(u.query) = Len(v.query)
    /\ \A i \in 1..Len(u.query) : Count(u.query, u.query[i]) = Count(v.query, u.query[i])

(* C1: in every reachable state the number of PageResults in results is at
   most max_pages, whatever links the fetched pages yield. *)
C1_PageBudget == Len(results) <= config.max_pages

C1_Witness ==
    /\ pc = "done"
    /\ config.max_pages > 0
    /\ Len(results) = config.max_pages
    /\ url_queue # <<>>

(* C2: at most one fetch is issued per normalized URL: two URLs that differ
   only in fragment or in query-parameter order are never both fetched. *)
C2_VisitedOnce ==
    \A i, j \in 1..Len(fetched) :
        i < j => ~SameNormalized(fetched[i].url, fetched[j].url)

(* C3: no PageResult has depth > max_depth, and no fetch is issued for a
   task deeper than max_depth. *)
C3_DepthBound ==
    /\ \A i \in 1..Len(results) : results[i].depth <= config.max_depth
    /\ \A i \in 1..Len(fetched) : fetched[i].depth <= config.max_depth

C3_Witness ==
    /\ last = "too_deep"
    /\ \E t \in dequeued : t[2] > config.max_depth /\ t[1] \notin visited_urls
    /\ Len(fetched) > 0

(* C4: the crawl loop eventually terminates, and when it has terminated the
   frontier is empty or len(results) >= max_pages. *)
C4_Terminates ==
    <>(pc = "done" /\ (url_queue = <<>> \/ Len(results) >= config.max_pages))

C4_Witness ==
    /\ pc = "done"
    /\ url_queue = <<>>
    /\ Len(fetched) >= 2
    /\ Len(results) < config.max_pages

(* C5: with the robots policy active and Disallow: /private recorded, no
   PageResult is ever recorded for a URL whose path starts with /private. *)
C5_RobotsEnforced ==
    (RobotsPolicyActive(config) /\ <<"private">> \in robots_parser.disallowed_paths)
    => \A i \in 1..Len(results) : ~PathStartsWith(results[i].url.path, <<"private">>)

C5_Witness ==
    /\ RobotsPolicyActive(config)
    /\ <<"private">> \in robots_parser.disallowed_paths
    /\ \E t \in dequeued : PathStartsWith(t[1].path, <<"private">>)
                            /\ t[1] \in visited_urls
    /\ pc = "done"

(* C6: a URL whose fetch fails yields a PageResult with the error field set
   that is appended to results (and so counts toward max_pages). *)
C6_ErrorRecorded ==
    last = "fetch_error" =>
        /\ Len(results) > 0
        /\ results[Len(results)].url = fetched[Len(fetched)].url
        /\ results[Len(results)].error # NoError

(* C7: a fetch failure on one URL does not stop the crawl loop: the loop
   stays at its head with the rest of the frontier untouched, and it ends
   only when the frontier is empty or the page budget is used up. *)
C7_FailureDoesNotStop ==
    /\ [][(Len(fetched') = Len(fetched) + 1 /\ fetched'[Len(fetched')].raised)
          => (pc' = "loop" /\ url_queue' = Tail(url_queue))]_vars
    /\ [](pc \in {"done", "aborted"}
          => (pc = "done" /\ (url_queue = <<>> \/ Len(results) >= config.max_pages)))

C7_Witness ==
    /\ Len(fetched) >= 2
    /\ fetched[Len(fetched) - 1].raised
    /\ ~fetched[Len(fetched)].raised
    /\ last = "ok"

(* the site of the end-to-end scenario: / links to /a and /b, which have no links *)
ScenarioSite(url) == IF url = RootUrl THEN <<HrefA, HrefB>> ELSE <<>>

ServedByScenarioSite ==
    \A i \in 1..Len(fetched) :
        ~fetched[i].raised /\ fetched[i].hrefs = ScenarioSite(fetched[i].url)

(* C8: for the site where / links to /a and /b, a run with max_depth=5,
   max_pages=1000 and no other override ends with an empty frontier and
   exactly three PageResults at depths 0, 1 and 1. *)
C8_EndToEnd ==
    (pc = "done" /\ config = DefaultConfig /\ ServedByScenarioSite)
    => /\ url_queue = <<>>
       /\ Len(results) = 3
       /\ results[1].depth = 0 /\ results[2].depth = 1 /\ results[3].depth = 1

(* C9: if the robots.txt request fails or is not a 200, and the robots policy
   is active, the seed URL is still fetched and recorded as a PageResult. *)
C9_RobotsFailOpen ==
    (/\ pc = "done"
     /\ RobotsPolicyActive(config)
     /\ robots_data.error # NoError
     /\ config.max_pages > 0)
    => /\ \E i \in 1..Len(fetched) : fetched[i].url = config.base_url
       /\ \A i \in 1..Len(fetched) :
            (fetched[i].url = config.base_url /\ ~fetched[i].raised)
            => config.base_url \in ResultUrls

(* C10: with override_robots set, can_fetch is never invoked during the
   crawl loop and no URL is skipped because of robots rules. *)
C10_OverrideBypassesGate ==
    config.override_robots =>
        /\ can_fetch_calls = 0
        /\ last \notin {"robots_skip", "gate_error"}

C10_Witness ==
    /\ config.override_robots
    /\ config.respect_robots
    /\ <<"private">> \in robots_parser.disallowed_paths
    /\ Len(results) > 0
    /\ pc = "done"

(* C11: the forms list of the report has at most one entry per (action,
   method) pair over all fetched pages, the retained entry of a pair is the
   first one in crawl order, and every pair found is retained: two forms with
   different (action, method) pairs are both in the list. *)
C11_FormsDeduplicated ==
    pc = "done" =>
        LET unique == DeduplicateForms(forms)
            First(pair) ==
                CHOOSE k \in 1..Len(forms) :
                    /\ FormPair(forms[k]) = pair
                    /\ \A m \in 1..(k - 1) : FormPair(forms[m]) # pair
        IN /\ \A i, j \in 1..Len(unique) :
                i # j => FormPair(unique[i]) # FormPair(unique[j])
           /\ \A i \in 1..Len(unique) :
                unique[i] = forms[First(FormPair(unique[i]))]
           /\ \A k \in 1..Len(forms) :
                \E i \in 1..Len(unique) : FormPair(unique[i]) = FormPair(forms[k])

(* C12: when the user interrupts the run during the crawl loop after at least
   one PageResult was collected, the loop stops and, before the program
   exits, a report holding the results collected so far is produced and
   saved. *)
C12_InterruptSavesReport ==
    (pc = "exited" /\ last = "interrupt" /\ Len(results) >= 1)
    => /\ saved.written
       /\ saved.pages = [i \in 1..Len(results) |-> results[i].url]

(* C13: on every exit path (normal completion, budget reached, error during
   setup or crawling, interrupt) every resource the run acquired (HTTP
   session, Playwright driver, browser) has been released when the run
   ends. *)
C13_ResourcesReleased ==
    pc = "exited" =>
        /\ resources.session # "open"
        /\ resources.playwright # "open"
        /\ resources.browser # "open"

(* C14: normalize_url is idempotent: for every URL string u,
   normalize(normalize(u)) = normalize(u). *)
C14_NormalizeIdempotent ==
    pure.fn = "normalize_url" => NormalizeUrlString(pure.value) = pure.value

IsPermutation(q1, q2) ==
    /\ Len(q1) = Len(q2)
    /\ \A x \in Range(q1) \cup Range(q2) : Count(q1, x) = Count(q2, x)

(* u and v are the same string up to the order of the query parameters *)
OnlyParamOrderDiffers(u, v) ==
    /\ [u EXCEPT !.query = <<>>] = [v EXCEPT !.query = <<>>]
    /\ IsPermutation(u.query, v.query)

DistinctKeys(q) == \A i, j \in 1..Len(q) : i # j => q[i][1] # q[j][1]

(* C15 as stated: two URLs that differ only in the order of their query
   parameters normalize to the same string, and the normalized form of a URL
   never has a fragment. *)
C15_OrderAndFragment ==
    pure.fn = "normalize_url" =>
        /\ pure.value.fragment = ""
        /\ \A v \in UtilUrls :
             OnlyParamOrderDiffers(pure.arg, v) => NormalizeUrlString(v) = pure.value

(* C15, amended: for a URL string that urlparse accepts, the normalized form
   has no fragment, and when the keys of its parameters are pairwise distinct
   every reordering of the parameters normalizes to the same string. *)
C15_OrderAndFragmentWellFormed ==
    (pure.fn = "normalize_url" /\ pure.arg.ok) =>
        /\ pure.value.fragment = ""
        /\ \A v \in UtilUrls :
             (OnlyParamOrderDiffers(pure.arg, v) /\ DistinctKeys(pure.arg.query))
             => NormalizeUrlString(v) = pure.value

C15_Witness ==
    /\ pure.fn = "normalize_url"
    /\ pure.arg.ok
    /\ pure.arg.query = << <<"b", "2">>, <<"a", "1">> >>
    /\ pure.arg.fragment = "top"
    /\ pure.value.query = << <<"a", "1">>, <<"b", "2">> >>
    /\ pure.value.fragment = ""

(* C16 as stated: with include_subdomains false, is_valid_url(url, base) is
   true for an http(s) URL exactly when the host of url equals the host of
   base; a URL on another host is never enqueued from link extraction. *)
C16_ScopeByHost ==
    /\ (/\ pure.fn = "is_valid_url"
        /\ ~pure.include_subdomains
        /\ pure.arg.ok
        /\ pure.arg.scheme \in {"http", "https"})
       => (pure.value <=> HostOf(pure.arg.netloc) = HostOf(pure.base_domain.netloc))
    /\ (pure.fn = "_extract_links" /\ ~pure.cfg.include_subdomains)
       => \A i \in 1..Len(pure.tasks) :
            HostOf(pure.tasks[i][1].netloc) = HostOf(pure.cfg.base_url.netloc)

(* C16, amended: with include_subdomains false, is_valid_url(url, base) is
   true exactly when url parses, its scheme is http or https and its netloc
   (the host together with the port, as written) equals the netloc of base;
   link extraction enqueues only URLs whose netloc equals that of the base
   URL. *)
C16_ScopeByNetloc ==
    /\ (pure.fn = "is_valid_url" /\ ~pure.include_subdomains)
       => (pure.value <=> /\ pure.arg.ok
                          /\ pure.arg.scheme \in {"http", "https"}
                          /\ pure.arg.netloc = pure.base_domain.netloc)
    /\ (pure.fn = "_extract_links" /\ ~pure.cfg.include_subdomains)
       => \A i \in 1..Len(pure.tasks) :
            pure.tasks[i][1].netloc = pure.cfg.base_url.netloc

C16_Witness ==
    /\ pure.fn = "is_valid_url"
    /\ ~pure.include_subdomains
    /\ pure.arg.ok
    /\ pure.arg.scheme = "http"
    /\ pure.arg.netloc = "test.local:8080"
    /\ pure.base_domain.netloc = "test.local"
    /\ ~pure.value

(* C17: when an enabled collaborator pass (subdomain enumeration, endpoint
   guessing, hidden-file scanning) raises, the failure is caught at the call
   site: the list of that feature stays empty up to the report, the frontier
   is as it was before the pass, and crawl() goes on to the next stage and
   the crawl loop. *)
C17_PassFailureContained ==
    /\ [][ (pc \in {"subdomains", "endpoints", "hidden"} /\ last' = "pass_error")
           => /\ url_queue' = url_queue
              /\ visited_urls' = visited_urls
              /\ pc = "subdomains" => (subdomains' = <<>> /\ pc' = AfterSubdomains(config))
              /\ pc = "endpoints"
                 => (guessed_endpoints' = <<>> /\ pc' = AfterEndpoints(config))
              /\ pc = "hidden" => (hidden_files' = <<>> /\ pc' = "loop") ]_vars
    /\ [][ /\ subdomains' # subdomains => pc = "subdomains"
           /\ guessed_endpoints' # guessed_endpoints => pc = "endpoints"
           /\ hidden_files' # hidden_files => pc = "hidden" ]_vars
    /\ [](pc # "aborted")

C17_Witness ==
    /\ config.enable_hidden_file_scanning
    /\ hidden_files = <<>>
    /\ pc = "done"
    /\ Len(results) >= 1
    /\ url_queue = <<>>

(* C18: a CrawlerConfig saved to a file and loaded back is equal to the
   original field for field, the ignored and focused extension sets
   included. *)
C18_ConfigRoundTrip ==
    pure.fn = "from_file" => pure.value = pure.written_from

C18_Witness ==
    /\ pure.fn = "from_file"
    /\ pure.written_from.ignored_extensions = {".pdf", ".zip"}
    /\ pure.arg.ignored_extensions = <<".zip", ".pdf">>
    /\ pure.written_from.focused_extensions = {}
    /\ pure.written_from.custom_headers # EmptyDict
    /\ pure.written_from.user_agent = None
    /\ pure.value.ignored_extensions = {".pdf", ".zip"}

(* C19 as stated: after a loop iteration that dequeues a task (url, depth),
   url is in the visited set, also when the task is discarded because
   depth > max_depth or because the robots gate denies it; the mark is set
   before the depth check and before any fetch. *)
C19_VisitedAfterDequeue ==
    /\ [][ (pc = "loop" /\ LoopCondition(url_queue, results, config.max_pages))
           => Head(url_queue)[1] \in visited_urls' ]_vars
    /\ [](\A i \in 1..Len(fetched) : fetched[i].url \in visited_urls)

(* C19, amended: after a loop iteration that dequeues a task (url, depth)
   with depth <= max_depth, url is in the visited set, also when the robots
   gate then denies it or fails; the mark is set inside crawl_page, after the
   depth check and before the gate and any fetch.  An iteration that discards
   a task because depth > max_depth leaves the visited set as it is. *)
C19_VisitedAfterCrawlPage ==
    /\ [][ (/\ pc = "loop"
            /\ LoopCondition(url_queue, results, config.max_pages)
            /\ ~DepthExceeded(Head(url_queue)[2], config.max_depth))
           => Head(url_queue)[1] \in visited_urls' ]_vars
    /\ [][ (/\ pc = "loop"
            /\ LoopCondition(url_queue, results, config.max_pages)
            /\ DepthExceeded(Head(url_queue)[2], config.max_depth))
           => visited_urls' = visited_urls ]_vars
    /\ [](\A i \in 1..Len(fetched) : fetched[i].url \in visited_urls)

C19_Witness ==
    /\ last = "too_deep"
    /\ \E t \in dequeued : t[2] > config.max_depth /\ t[1] \notin visited_urls
    /\ Len(fetched) >= 1
    /\ RobotsPolicyActive(config) = FALSE

(* C20: an iteration that dequeues a task whose URL is already in the visited
   set issues no fetch and leaves results, the aggregated collections (forms,
   endpoints, JS files, cookies, headers) and the visited set unchanged; it
   uses none of the page budget. *)
C20_VisitedTaskIsNoOp ==
    [][ (/\ pc = "loop"
         /\ LoopCondition(url_queue, results, config.max_pages)
         /\ Head(url_queue)[1] \in visited_urls)
        => /\ fetched' = fetched
           /\ can_fetch_calls' = can_fetch_calls
           /\ results' = results
           /\ aggregates' = aggregates
           /\ visited_urls' = visited_urls
           /\ url_queue' = Tail(url_queue) ]_vars

C20_Witness ==
    /\ last = "visited"
    /\ Len(results) >= 1
    /\ forms # <<>>
    /\ pc = "loop"

(* C21: after a page dequeued at depth d is fetched, every link of its
   result that is not in the visited set at that moment is appended to the
   tail of the frontier as (link, d + 1), in the order of the result's links;
   the loop adds no other task. *)
C21_LinksEnqueued ==
    [][ (pc = "loop" /\ LoopCondition(url_queue, results, config.max_pages))
        => LET d == Head(url_queue)[2]
               recorded == Len(results') > Len(results)
               links == IF recorded THEN results'[Len(results')].links ELSE <<>>
               fresh == SelectSeq(links, LAMBDA l : l \notin visited_urls')
           IN url_queue' = Tail(url_queue)
                           \o [i \in 1..Len(fresh) |-> <<fresh[i], d + 1>>] ]_vars

C21_Witness ==
    /\ last = "ok"
    /\ Len(results) = 2
    /\ results[2].links # <<>>
    /\ \E i \in 1..Len(results[2].links) : results[2].links[i] \in visited_urls
    /\ \E i \in 1..Len(url_queue) :
         url_queue[i][2] = results[2].depth + 1 /\ url_queue[i][1] \in Range(results[2].links)

(* C22: PageResults are appended to results in non-decreasing depth order,
   and the frontier is first-in first-out: a fetch is always of the task at
   the head, tasks leave only at the head and the tasks that stay keep their
   order, so URLs of equal depth are fetched in the order they were
   enqueued. *)
C22_BreadthFirst ==
    /\ [](\A i, j \in 1..Len(results) : i < j => results[i].depth <= results[j].depth)
    /\ [](\A i, j \in 1..Len(fetched) : i < j => fetched[i].depth <= fetched[j].depth)
    /\ [][ \E k \in {0, 1} :
             /\ Len(url_queue) >= k
             /\ Len(url_queue') >= Len(url_queue) - k
             /\ SubSeq(url_queue', 1, Len(url_queue) - k)
                = SubSeq(url_queue, 1 + k, Len(url_queue)) ]_vars
    /\ [][ Len(fetched') > Len(fetched)
           => /\ url_queue # <<>>
              /\ fetched'[Len(fetched')].url = Head(url_queue)[1]
              /\ fetched'[Len(fetched')].depth = Head(url_queue)[2] ]_vars

C22_Witness ==
    /\ Len(fetched) >= 3
    /\ fetched[1].depth = 0
    /\ fetched[2].depth = 0
    /\ fetched[3].depth = 1
    /\ Len(results) = 2
    /\ results[2].depth = 1

(* C23: every URL fetched during a run, other than the seed, has passed the
   admission filter (in scope for the base URL and accepted by the extension
   filter), the URLs that the subdomain, endpoint-guessing and hidden-file
   passes put into the frontier included. *)
C23_FetchedAdmitted ==
    \A i \in 1..Len(fetched) :
        fetched[i].url = config.base_url \/ IsValidUrl(config, fetched[i].url)

(* C24: between any two consecutive page fetches of a run the configured
   inter-request delay elapses at least once, also when the earlier of the
   two fetches failed. *)
C24_DelayBetweenFetches ==
    [][ (Len(fetched') > Len(fetched) /\ fetched # <<>>) => slept ]_vars

C24_Witness ==
    /\ Len(fetched) = 2
    /\ fetched[1].raised
    /\ ~fetched[2].raised
    /\ slept

(* C25: one parse of robots.txt issues exactly one request for
   {base}/robots.txt, whatever the answer is. *)
C25_OneRobotsRequest ==
    pure.fn = "parse_robots_txt" => Len(pure.requests) = 1

(* the lines of a robots.txt body that stand under `User-agent: *` or before
   any User-agent line *)
ScopedIndexes(lines) ==
    { i \in 1..Len(lines) :
        LET uas == { j \in 1..(i - 1) : lines[j].directive = "User-agent" }
        IN uas = {} \/ \E j \in uas : (\A k \in uas : k <= j) /\ lines[j].value = "*" }

(* the restrictions of the scoped lines only; a malformed Crawl-delay counts
   for nothing *)
ScopedRestrictions(lines) ==
    LET of(d) == { i \in ScopedIndexes(lines) : lines[i].directive = d }
        delays == { i \in of("Crawl-delay") : lines[i].numeric }
    IN [disallowed_paths |-> { lines[i].value : i \in of("Disallow") },
        allowed_paths |-> { lines[i].value : i \in of("Allow") },
        crawl_delay |-> IF delays = {} THEN 0
                        ELSE lines[CHOOSE i \in delays : \A k \in delays : k <= i].value]

(* C26: both robots parsers record a Disallow, Allow or Crawl-delay line only
   when it stands under `User-agent: *` or before any User-agent line; the
   lines of a named agent's block and a malformed Crawl-delay change nothing
   of what is recorded. *)
C26_DirectivesScoped ==
    /\ (pure.fn = "parse_robots_txt" /\ pure.value.error = NoError) =>
         LET want == ScopedRestrictions(pure.arg.content)
         IN /\ pure.value.disallowed_paths = want.disallowed_paths
            /\ pure.value.allowed_paths = want.allowed_paths
            /\ pure.value.crawl_delay = want.crawl_delay
    /\ pure.fn = "parse_robots_txt_content" =>
         LET want == ScopedRestrictions(pure.arg)
         IN /\ Range(pure.value.disallowed_paths) = want.disallowed_paths
            /\ Range(pure.value.allowed_paths) = want.allowed_paths
            /\ pure.value.crawl_delay = want.crawl_delay

(* C27: the gate answers false exactly when the path of the URL starts with
   a recorded Disallow entry, or some Allow entry is recorded and the path
   starts with none of them; it answers true otherwise, and it answers for
   every URL without raising. *)
C27_GateRule ==
    /\ pure.fn = "can_fetch" =>
         /\ ~pure.raised
         /\ pure.value =
              ~(\/ \E d \in pure.parser.disallowed_paths :
                      PathStartsWith(pure.arg.path, d)
                \/ /\ pure.parser.allowed_paths # {}
                   /\ \A a \in pure.parser.allowed_paths :
                        ~PathStartsWith(pure.arg.path, a))
    /\ pure.fn = "is_robots_allowed" =>
         pure.value =
           ~(\/ \E d \in Range(pure.robots_data.disallowed_paths) :
                   PathStartsWith(pure.arg, d)
             \/ /\ pure.robots_data.allowed_paths # <<>>
                /\ \A a \in Range(pure.robots_data.allowed_paths) :
                     ~PathStartsWith(pure.arg, a))

(* the probe tasks that are inside `async with semaphore` *)
InRequestSection == { i \in 1..Len(probe.wordlist) : probe.task[i] \in {"GET", "HEAD"} }

(* C29: during guess_endpoints and scan_hidden_files never more than
   max_concurrent probe tasks are inside their request section. *)
C29_ConcurrencyBound ==
    probe.pc = "gather" => Cardinality(InRequestSection) <= probe.max_concurrent

(* max_concurrent tasks are inside the section while another one waits *)
C29_Witness ==
    /\ probe.pc = "gather"
    /\ probe.max_concurrent > 0
    /\ Cardinality(InRequestSection) = probe.max_concurrent
    /\ \E i \in 1..Len(probe.wordlist) : probe.task[i] = "start"
    /\ \E i \in 1..Len(probe.wordlist) : probe.task[i] = "done"

(* a record without the time it was made at *)
WithoutTimestamp(rec) == [k \in DOMAIN rec \ {"timestamp"} |-> rec[k]]

(* the method whose answer makes a wordlist entry found, "none" if neither does *)
FoundBy(word) ==
    LET hit(m) == ~Answer(word, m).raised /\ Answer(word, m).status \in StatusCodes
    IN IF hit("GET") THEN "GET" ELSE IF hit("HEAD") THEN "HEAD" ELSE "none"

(* what the wordlist and the server's answers alone determine: the found
   entries in wordlist order, then sorted by the collaborator's key *)
ListOfAnswers(kind, wordlist) ==
    LET found == SelectSeq(wordlist, LAMBDA w : FoundBy(w) # "none")
        recs  == [i \in 1..Len(found) |->
                    FoundRecord(kind, found[i], FoundBy(found[i]),
                                Answer(found[i], FoundBy(found[i])).status, 0)]
    IN StableSort(kind, recs)

(* C30: once every probe has completed, the collaborator returns a list, and
   that list (the timestamps of the records aside) is the one the wordlist
   and the per-path answers determine, whatever order the probes completed
   in. *)
C30_ListIndependentOfCompletionOrder ==
    (probe.pc \in {"returned", "raised"}) =>
        /\ probe.pc = "returned"
        /\ [i \in 1..Len(probe.returned) |-> WithoutTimestamp(probe.returned[i])]
           = [i \in 1..Len(ListOfAnswers(probe.kind, probe.wordlist)) |->
                WithoutTimestamp(ListOfAnswers(probe.kind, probe.wordlist)[i])]

(* the URLs a pass of crawl() got back from its collaborator: the returned
   subdomains as https:// URLs, or the url of every record with found set *)
ReportedUrls(stage, subs, recs) ==
    IF stage = "subdomains"
    THEN [i \in 1..Len(subs) |-> Url("https", subs[i], <<>>, <<>>, "")]
    ELSE LET found == SelectSeq(recs, LAMBDA r : r.found)
         IN [i \in 1..Len(found) |-> found[i].url]

(* C28: before the crawl loop starts, each subdomain the enumerator returned
   and each URL a probing collaborator reported as found is appended to the
   frontier as a depth-0 task, behind the seed, unless it is in visited_urls. *)
C28_ReportedEnqueuedAtDepthZero ==
    [][ (pc \in {"subdomains", "endpoints", "hidden"}) =>
          LET reported == ReportedUrls(pc, subdomains',
                                       IF pc = "endpoints" THEN guessed_endpoints'
                                       ELSE hidden_files')
              fresh == SelectSeq(reported, LAMBDA u : u \notin visited_urls)
          IN /\ url_queue' = url_queue \o [i \in 1..Len(fresh) |-> <<fresh[i], 0>>]
             /\ Head(url_queue') = <<config.base_url, 0>>
             /\ fetched = <<>> ]_vars

(* the loop is about to start with a returned subdomain behind the seed *)
C28_Witness ==
    /\ pc = "loop"
    /\ fetched = <<>>
    /\ subdomains # <<>>
    /\ url_queue = << <<config.base_url, 0>>,
                      <<Url("https", subdomains[1], <<>>, <<>>, ""), 0>> >>

(* C31: the list a probing collaborator returns once its probes have
   completed holds only records with found set, sorted by status code and,
   for equal status codes, by path. *)
C31_FoundOnlySortedByStatusThenPath ==
    (probe.pc \in {"returned", "raised"}) =>
        /\ probe.pc = "returned"
        /\ \A i \in 1..Len(probe.returned) : probe.returned[i].found
        /\ \A i, j \in 1..Len(probe.returned) :
             i < j =>
               \/ probe.returned[i].status_code < probe.returned[j].status_code
               \/ /\ probe.returned[i].status_code = probe.returned[j].status_code
                  /\ PathRank(probe.returned[i].path) <= PathRank(probe.returned[j].path)

(* the bucket the claimed rule gives: api, else rest, else versioned when
   "/v" is immediately followed by a digit, else other *)
ClaimedBucket(e) ==
    IF Contains(e, <<"/", "api", "/">>) THEN "api"
    ELSE IF Contains(e, <<"/", "rest", "/">>) THEN "rest"
    ELSE IF \E d \in Digits : Contains(e, <<"/", "v", d>>) THEN "versioned"
    ELSE "other"

(* C32: every aggregated endpoint is placed in exactly one bucket, the one
   chosen with precedence api > rest > versioned > other, where versioned
   means "/v" immediately followed by a digit. *)
C32_OneBucketByPrecedence ==
    pure.fn = "_group_endpoints" =>
        \A i \in 1..Len(pure.arg) :
            /\ Cardinality({ t \in DOMAIN pure.value :
                   \E k \in 1..Len(pure.value[t]) : pure.value[t][k] = pure.arg[i] }) = 1
            /\ ClaimedBucket(pure.arg[i]) \in DOMAIN pure.value
            /\ \E k \in 1..Len(pure.value[ClaimedBucket(pure.arg[i])]) :
                   pure.value[ClaimedBucket(pure.arg[i])][k] = pure.arg[i]

(* C33: no URL whose scheme is other than http or https is admitted:
   is_valid_url answers false for it whatever its host, and link extraction
   never hands such a URL to the frontier. *)
C33_OnlyHttpSchemesAdmitted ==
    /\ (pure.fn = "is_valid_url" /\ pure.arg.scheme \notin {"http", "https"})
         => ~pure.value
    /\ pure.fn = "_extract_links" =>
         /\ \A i \in 1..Len(pure.value) : pure.value[i].scheme \in {"http", "https"}
         /\ \A i \in 1..Len(pure.tasks) : pure.tasks[i][1].scheme \in {"http", "https"}

(* C34: under both fetch strategies the links reported for a page are its
   hrefs resolved against the URL of that page, so the two strategies report
   the same links for the same page content at the same page URL. *)
C34_LinksResolvedAgainstPage ==
    pure.fn = "_extract_links" =>
        pure.value = ExtractLinksFrom(pure.cfg, pure.page_url, pure.arg)


(* C35 *)
(* index of the last recorded page whose map sets the key *)
LastSetting(maps, k) ==
    CHOOSE i \in 1..Len(maps) :
        /\ k \in DOMAIN maps[i]
        /\ \A j \in (i + 1)..Len(maps) : k \notin DOMAIN maps[j]

(* the merged map holds exactly the keys some recorded page set, each with
   the value of the last recorded page that set it *)
LastWriteWins(merged, maps) ==
    /\ DOMAIN merged = UNION { DOMAIN maps[i] : i \in 1..Len(maps) }
    /\ \A k \in DOMAIN merged : merged[k] = maps[LastSetting(maps, k)][k]

(* C35: the merged cookie and header maps that the report carries are the
   fold of the per-page maps in the order the page results were appended:
   for a key set by several pages the value of the last such page stands. *)
C35_MergedMapsLastWriteWins ==
    /\ LastWriteWins(cookies, [i \in 1..Len(results) |-> results[i].cookies])
    /\ LastWriteWins(headers, [i \in 1..Len(results) |-> results[i].headers])

(* two recorded pages set the same cookie to different values, the crawl has
   finished and the reported value is the later page's *)
C35_Witness ==
    /\ pc = "done"
    /\ \E i, j \in 1..Len(results) :
         /\ i < j
         /\ "sid" \in DOMAIN results[i].cookies
         /\ "sid" \in DOMAIN results[j].cookies
         /\ results[i].cookies["sid"] # results[j].cookies["sid"]
         /\ cookies["sid"] = results[j].cookies["sid"]


(* C36 *)
(* C36: in every reachable state no two page results in results carry the
   same url, the url of every page result is in visited_urls, and no step of
   the run removes an element from visited_urls. *)
C36_ResultsUniqueAndVisited ==
    /\ [](/\ \A i, j \in 1..Len(results) :
               results[i].url = results[j].url => i = j
          /\ \A i \in 1..Len(results) : results[i].url \in visited_urls)
    /\ [][visited_urls \subseteq visited_urls']_vars

(* the iteration just taken dequeued a URL that is in visited_urls, and every
   visited URL has a page result: a URL recorded before was dequeued again *)
C36_Witness ==
    /\ last = "visited"
    /\ Len(results) >= 2
    /\ \A u \in visited_urls : \E i \in 1..Len(results) : results[i].url = u


(* C37 *)
(* every task that was put on the frontier so far: those taken off it and
   those still on it *)
EverEnqueued == dequeued \cup Range(url_queue)

(* C37: the depth recorded in the page result of a URL is the minimum depth
   over all tasks for that URL that were ever enqueued during the run. *)
C37_RecordedDepthIsMinimum ==
    \A i \in 1..Len(results) :
        /\ <<results[i].url, results[i].depth>> \in EverEnqueued
        /\ \A t \in EverEnqueued :
             t[1] = results[i].url => results[i].depth <= t[2]

(* a URL was recorded at one depth and a task for it was also enqueued at a
   greater depth *)
C37_Witness ==
    \E i \in 1..Len(results) : \E t \in EverEnqueued :
        /\ t[1] = results[i].url
        /\ t[2] > results[i].depth
        /\ results[i].depth >= 1


(* C38 *)
(* C38: a second parse_robots_txt on the same crawler, for the same robots.txt
   content, leaves the recorded disallowed paths, allowed paths and crawl
   delay as they were after the first call that read the content. *)
C38_SecondParseChangesNothing ==
    (/\ pure # NoCall
     /\ pure.fn = "parse_robots_txt_again"
     /\ ~pure.arg.raised /\ pure.arg.status = 200 /\ ~pure.arg.read_raised)
    => /\ pure.parser.disallowed_paths = pure.first.disallowed_paths
       /\ pure.parser.allowed_paths = pure.first.allowed_paths
       /\ pure.parser.crawl_delay = pure.first.crawl_delay

(* both calls read a robots.txt with a Disallow, an Allow and a numeric
   Crawl-delay line *)
C38_Witness ==
    /\ pure # NoCall
    /\ pure.fn = "parse_robots_txt_again"
    /\ ~pure.arg.raised /\ pure.arg.status = 200 /\ ~pure.arg.read_raised
    /\ ~pure.again.raised /\ pure.again.status = 200 /\ ~pure.again.read_raised
    /\ pure.first.disallowed_paths # {}
    /\ pure.first.allowed_paths # {}
    /\ pure.first.crawl_delay # 0

====
